---- MODULE Spec2Model ----
(***************************************************************************)
(* Model of the pygrays report engine: the aging report, inventory, bank   *)
(* statement and payment extract services, the import/export schemas and   *)
(* the response envelope.                                                  *)
(*                                                                         *)
(* Python values are records [k, n, s]: k is the Python type, n the        *)
(* numeric payload (amounts, day numbers, booleans as 0/1) and s the       *)
(* string payload.  CSV cells are strings; what float() and strptime()     *)
(* make of a cell is given by FloatText and DateText.                      *)
(***************************************************************************)
EXTENDS Integers, Sequences, FiniteSets, TLC

\* ------------------------------------------------------------------ bounds
MaxFiles == 2
MaxRows == 1
MaxMapRows == 2
MaxImportRows == 2
MaxExportRows == 2

\* ------------------------------------------------------------ Python values
None == [k |-> "none", n |-> 0, s |-> ""]
Str(x) == [k |-> "str", n |-> 0, s |-> x]
Float(x) == [k |-> "float", n |-> x, s |-> ""]
IntV(x) == [k |-> "int", n |-> x, s |-> ""]
Bool(b) == [k |-> "bool", n |-> IF b THEN 1 ELSE 0, s |-> ""]
DateTime(x) == [k |-> "datetime", n |-> x, s |-> ""]

\* Python truthiness of a value
Truthy(v) ==
    CASE v.k = "none" -> FALSE
      [] v.k = "str" -> v.s # ""
      [] v.k \in {"float", "int", "bool", "decimal"} -> v.n # 0
      [] OTHER -> TRUE

IsNumber(v) == v.k \in {"int", "float", "bool", "decimal"}

\* dict.get(key) with the default None
Get(row, f) == IF f \in DOMAIN row THEN row[f] ELSE None

\* dict.get(key, default)
GetOr(row, f, dflt) == IF f \in DOMAIN row THEN row[f] ELSE dflt

SeqToSet(q) == {q[i] : i \in DOMAIN q}

\* ------------------------------------------------------- text of CSV cells
\* float(text): the number a cell denotes, in whole units
FloatText ==
    [t \in {"0", "0.00", "10", "100", "250"} |->
        CASE t = "0" -> 0
          [] t = "0.00" -> 0
          [] t = "10" -> 10
          [] t = "100" -> 100
          [] t = "250" -> 250]

\* datetime.strptime(text, fmt): the day number a cell denotes under the
\* one format whose syntax it has
DateText ==
    [t \in {"01/02/2025 10:30", "01/02/2025 10:30:00 AM", "01/02/2025", "05/02/2025"} |->
        CASE t = "01/02/2025 10:30" -> [fmt |-> "%d/%m/%Y %H:%M", day |-> 20120]
          [] t = "01/02/2025 10:30:00 AM" -> [fmt |-> "%d/%m/%Y %I:%M:%S %p", day |-> 20120]
          [] t = "01/02/2025" -> [fmt |-> "%d/%m/%Y", day |-> 20120]
          [] t = "05/02/2025" -> [fmt |-> "%d/%m/%Y", day |-> 20124]]

\* str.upper() of the cells and file-name tokens used here
Upper(t) ==
    CASE t \in {"true", "True", "TRUE"} -> "TRUE"
      [] t \in {"false", "False", "FALSE"} -> "FALSE"
      [] t \in {"y", "Y"} -> "Y"
      [] t \in {"yes", "Yes", "YES"} -> "YES"
      [] t \in {"nsw", "NSW"} -> "NSW"
      [] t \in {"vic", "VIC"} -> "VIC"
      [] t \in {"mixed", "Mixed", "MIXED"} -> "MIXED"
      [] OTHER -> t

\* ------------------------------------------------------------- ImportField

ImportField(type, req, fmts) == [field_type |-> type, required |-> req, formats |-> fmts]

\* ImportField._parse_date: first format that parses, None when none does
RECURSIVE ParseDateFrom(_, _, _)
ParseDateFrom(t, fmts, i) ==
    IF i > Len(fmts) THEN None
    ELSE IF t \in DOMAIN DateText /\ DateText[t].fmt = fmts[i] THEN DateTime(DateText[t].day)
    ELSE ParseDateFrom(t, fmts, i + 1)

ParseDate(field, t) == IF t = "" THEN None ELSE ParseDateFrom(t, field.formats, 1)

\* ImportField.convert applied to a CSV cell (a string)
Convert(field, t) ==
    IF t = "" THEN (IF field.required THEN Str(t) ELSE None)
    ELSE CASE field.field_type = "datetime" -> ParseDate(field, t)
           [] field.field_type = "float" ->
                IF t \in DOMAIN FloatText THEN Float(FloatText[t]) ELSE Str(t)
           [] field.field_type = "boolean" ->
                Bool(Upper(t) \in {"TRUE", "YES", "Y", "1"})
           [] OTHER -> Str(t)

\* the Day column of a day of the month
DayKey(d) == IF d = 14 THEN "Day14" ELSE "Day15"

aging_report_daily_data_import_schema ==
    [f \in {"Classification", "Sale_No", "Description", "Division", "Sale_Date",
            "Gross_Tot", "Delot_Ind", "Cheque_Date", "Day14", "Day15"} |->
        CASE f \in {"Sale_No", "Division"} -> ImportField("string", TRUE, <<>>)
          [] f \in {"Sale_Date", "Cheque_Date"} -> ImportField("datetime", FALSE,
                         <<"%d/%m/%Y %H:%M", "%d/%m/%Y %I:%M:%S %p", "%d/%m/%Y">>)
          [] f = "Gross_Tot" -> ImportField("float", TRUE, <<>>)
          [] f = "Delot_Ind" -> ImportField("boolean", FALSE, <<>>)
          [] f \in {"Day14", "Day15"} -> ImportField("float", FALSE, <<>>)
          [] OTHER -> ImportField("string", FALSE, <<>>)]

\* ImportSchema.import_data for one parsed row: a cell of a schema field is
\* converted when non-empty and None otherwise, other cells are kept as text
ImportRow(schema, raw) ==
    [f \in DOMAIN raw |->
        IF f \notin DOMAIN schema THEN Str(raw[f])
        ELSE IF raw[f] # "" THEN Convert(schema[f], raw[f]) ELSE None]

\* ImportSchema.import_data: utf-8-sig decoding, then every row
ImportData(schema, file) ==
    IF file.decodes
    THEN [data |-> [i \in DOMAIN file.rows |-> ImportRow(schema, file.rows[i])], errs |-> <<>>]
    ELSE [data |-> <<>>, errs |-> <<"Error importing data">>]

\* --------------------------------------------------------- response envelope
NoData == [name |-> "", content |-> <<>>]

\* ResponseBase(is_success=True)
ResponseBase == [is_success |-> TRUE, data |-> NoData, errors |-> <<>>]

\* variant of _handle_errors: the errors are added and is_success is left as
\* it was
HandleErrorsKeepSuccess(errs, resp) ==
    IF Len(errs) > 0
    THEN [resp EXCEPT !.errors = resp.errors \o errs]
    ELSE resp

\* _handle_errors (the same in the four services): the response after the call
HandleErrors(errs, resp) ==
    IF Len(errs) > 0
    THEN [resp EXCEPT !.errors = resp.errors \o errs, !.is_success = FALSE]
    ELSE resp

\* ------------------------------------------------- aging: data file intake
\* A file name is [stem, token, ext]; the state pattern
\* (?:Sales[ _]?Aged[ _]?Balance[ _]?|SalesAgedBalance)(\w+)\.csv, IGNORECASE
StateMatch(name) ==
    /\ name.stem \in {"Sales Aged Balance ", "SalesAgedBalance", "Sales_Aged_Balance_",
                      "sales aged balance "}
    /\ name.token # ""
    /\ name.ext = ".csv"

\* bytes.decode(codec): latin-1 bytes are not valid UTF-8
Decodes(file, codec) == codec = "latin-1" \/ file.encoding # "latin-1"

\* Python's `phrase in text` for the description texts used here
Occurs ==
    [t \in {"", "Widget", "Fee: Buyer Cancellation Fees", "buyer cancellation fees",
            "Total Invoices", "Total Payments", "Sub Total Bankings"} |->
        CASE t = "Fee: Buyer Cancellation Fees" -> {"Buyer Cancellation Fees"}
          [] t = "Total Invoices" -> {"Total Invoices"}
          [] t = "Total Payments" -> {"Total Payments"}
          [] t = "Sub Total Bankings" -> {"Total Bankings"}
          [] OTHER -> {}]

In(phrase, v) == v.k = "str" /\ v.s \in DOMAIN Occurs /\ phrase \in Occurs[v.s]

TotalsMarkers == {"Total Invoices", "Total Payments", "Total Bankings"}

\* variant of the exclusion rule: rule 2 drops every row whose Gross_Tot is
\* falsy (absent as well as zero)
ExclusionReasonFalsyGross(row) ==
    LET cheque_date == Get(row, "Cheque_Date")
        gross_total == Get(row, "Gross_Tot")
        description == Get(row, "Description")
    IN  IF cheque_date # None THEN "cheque_date"
        ELSE IF ~Truthy(gross_total) THEN "zero_gross"
        ELSE IF Truthy(description) /\ In("Buyer Cancellation Fees", description)
             THEN "cancellation"
        ELSE IF Truthy(description) /\ (\E m \in TotalsMarkers : In(m, description))
             THEN "totals_rows"
        ELSE ""

\* the exclusion rule that drops a coerced row, "" when the row is kept
ExclusionReason(row) ==
    LET cheque_date == Get(row, "Cheque_Date")
        gross_total == Get(row, "Gross_Tot")
        description == Get(row, "Description")
    IN  IF cheque_date # None THEN "cheque_date"
        ELSE IF IsNumber(gross_total) /\ gross_total.n = 0 THEN "zero_gross"
        ELSE IF Truthy(description) /\ In("Buyer Cancellation Fees", description)
             THEN "cancellation"
        ELSE IF Truthy(description) /\ (\E m \in TotalsMarkers : In(m, description))
             THEN "totals_rows"
        ELSE ""

\* variant of the filtering loop: rows with a cheque date are kept as well
FilterRowsKeepCheques(data, state) ==
    LET keep(r) == ExclusionReason(r) \in {"", "cheque_date"}
        kept == SelectSeq(data, keep)
    IN  [i \in DOMAIN kept |-> [f \in (DOMAIN kept[i]) \cup {"State"} |->
                                   IF f = "State" THEN Str(state) ELSE kept[i][f]]]

\* the filtering loop over one imported file: kept rows get the State key
FilterRows(data, state) ==
    LET keep(r) == ExclusionReason(r) = ""
        kept == SelectSeq(data, keep)
    IN  [i \in DOMAIN kept |-> [f \in (DOMAIN kept[i]) \cup {"State"} |->
                                   IF f = "State" THEN Str(state) ELSE kept[i][f]]]

\* one iteration of the data file loop: [rows, errs] contributed by the file
ProcessDataFile(file) ==
    IF ~StateMatch(file.name)
    THEN [rows |-> <<>>, errs |-> <<"Unable to extract state from filename">>]
    ELSE IF ~Decodes(file, "utf-8")
    THEN [rows |-> <<>>, errs |-> <<"Error decoding file">>]
    ELSE LET imported == ImportData(aging_report_daily_data_import_schema,
                                    [decodes |-> Decodes(file, "utf-8-sig"), rows |-> file.rows])
         IN  [rows |-> FilterRows(imported.data, Upper(file.name.token)),
              errs |-> imported.errs]

\* ------------------------------------------------- aging: mapping file
\* int(text) of a cell, after str.strip()
IntText ==
    [t \in {"0", "30", "45"} |-> CASE t = "0" -> 0 [] t = "30" -> 30 [] t = "45" -> 45]

\* str.strip() of the cells used here
Strip(t) ==
    CASE t = " 30 " -> "30"
      [] t = " TRAN_DATE" -> "TRAN_DATE"
      [] t = " 032075843041 " -> "032075843041"
      [] t = " " -> ""
      [] t = " ACME " -> "ACME"
      [] t = " BusinessEntity " -> "BusinessEntity"
      [] OTHER -> t

\* Python's == on two values
PyEq(a, b) == IF IsNumber(a) /\ IsNumber(b) THEN a.n = b.n ELSE a = b

\* f"{value}"
FStr(v) ==
    IF v.k = "none" THEN "None"
    ELSE IF v.k = "str" THEN v.s
    ELSE IF v.n \in {IntText[t] : t \in DOMAIN IntText}
         THEN CHOOSE t \in DOMAIN IntText : IntText[t] = v.n
    ELSE "?"

\* dict(zip(headers, values)): the last of two equal headers wins
ZipDict(hs, vs) ==
    [h \in SeqToSet(hs) |->
        vs[CHOOSE i \in DOMAIN hs : hs[i] = h /\ \A j \in DOMAIN hs : hs[j] = h => j <= i]]

\* the two-column tables at 0-based columns (i, j): [table, ok]; ok is FALSE
\* when the header row is too short (IndexError)
PairTable(headers, data_rows, i, j) ==
    IF Len(headers) < j + 1 THEN [table |-> <<>>, ok |-> FALSE]
    ELSE LET usable(row) == Len(row) > j /\ row[i + 1] # "" /\ row[j + 1] # ""
             rows == SelectSeq(data_rows, usable)
         IN  [table |-> [r \in DOMAIN rows |->
                            ZipDict(<<headers[i + 1], headers[j + 1]>>,
                                    <<Str(rows[r][i + 1]), Str(rows[r][j + 1])>>)],
              ok |-> TRUE]

\* one Division Name / State / Days entry from a row with columns 6, 7, 9
DaysEntry(headers, row) ==
    LET zipped == ZipDict(<<headers[7], headers[8], headers[10]>>,
                          <<Str(row[7]), Str(row[8]), Str(row[10])>>)
        days_value_str == Strip(GetOr(zipped, "Days", Str("")).s)
        days == IF days_value_str \in DOMAIN IntText THEN IntV(IntText[days_value_str]) ELSE None
    IN  [h \in (DOMAIN zipped) \cup {"Days"} |-> IF h = "Days" THEN days ELSE zipped[h]]

DaysTable(headers, data_rows) ==
    IF Len(headers) < 10 THEN [table |-> <<>>, ok |-> FALSE]
    ELSE LET wide(row) == Len(row) > 9
             entries == [r \in DOMAIN SelectSeq(data_rows, wide) |->
                            DaysEntry(headers, SelectSeq(data_rows, wide)[r])]
             keyed(e) == Truthy(Get(e, headers[8])) /\ Truthy(Get(e, headers[7]))
         IN  [table |-> SelectSeq(entries, keyed), ok |-> TRUE]

\* _load_and_process_mapping_file: [ok, lookups, errs]; ok is FALSE when the
\* method returns None
LoadMapping(mapping_file) ==
    IF ~Decodes(mapping_file, "utf-8-sig")
    THEN [ok |-> FALSE, errs |-> <<"Error decoding mapping file">>]
    ELSE IF mapping_file.table = <<>>
    THEN [ok |-> FALSE, errs |-> <<"Mapping file is empty or contains no header row">>]
    ELSE LET headers == Head(mapping_file.table)
             data_rows == Tail(mapping_file.table)
             t1 == PairTable(headers, data_rows, 0, 1)
             t2 == PairTable(headers, data_rows, 3, 4)
             t3 == DaysTable(headers, data_rows)
         IN  [ok |-> TRUE,
              division_to_subdivision |-> t1.table,
              divisionno_to_division |-> t2.table,
              division_state_days |-> t3.table,
              errs |-> (IF t1.ok THEN <<>> ELSE <<"insufficient columns for Division/Sub Division mapping">>)
                    \o (IF t2.ok THEN <<>> ELSE <<"insufficient columns for DivisionNo/Division mapping">>)
                    \o (IF t3.ok THEN <<>> ELSE <<"insufficient columns for Division/State/Days mapping">>)]

\* ------------------------------------------------- aging: derivation
\* next((item for item in table if test(item)), None) over the tests' outcomes:
\* 0 stands for None
FirstIndex(hits) ==
    IF \E i \in DOMAIN hits : hits[i]
    THEN CHOOSE i \in DOMAIN hits : hits[i] /\ \A j \in 1..(i - 1) : ~hits[j]
    ELSE 0

\* strftime("%b-%y") and .year of the sale dates used here
MonthLabel(day) == IF day \in 20120..20147 THEN "Feb-25" ELSE "Jan-25"

YearOf(day) == IF day >= 20089 THEN 2025 ELSE 2024

DerivedFields ==
    {"State-Division Name", "Payment Days", "Due Date", "Division Name",
     "Sub Division Name", "Gross Amount", "Collected", "To be Collected",
     "Payable to Vendor", "Month", "Year", "Cheque Date Y/N",
     "Days Late for Vendors Pmt"}

\* Column 46 (AT): Division Name looked up from DivisionNo
DivisionName(row, divisionno_to_division) ==
    LET division_no == Get(row, "Division")
        match(item) == PyEq(Get(item, "DivisionNo"), division_no)
        i == FirstIndex([k \in DOMAIN divisionno_to_division |-> match(divisionno_to_division[k])])
    IN  IF i = 0 THEN Str("") ELSE GetOr(divisionno_to_division[i], "Division", Str(""))

\* Column 43 (AQ): "<State>-<Division Name>", empty when either half is empty
StateDivisionName(row, division_name) ==
    LET state_val == IF Truthy(Get(row, "State")) THEN Get(row, "State") ELSE Str("")
    IN  IF Truthy(state_val) /\ Truthy(division_name)
        THEN Str(state_val.s \o "-" \o division_name.s)
        ELSE Str("")

\* variant of the Payment Days lookup: a miss resolves to 0 days
PaymentDaysZeroOnMiss(state_division, division_state_days) ==
    LET match(item) ==
            FStr(Get(item, "State")) \o "-" \o FStr(Get(item, "Division Name")) = state_division.s
        i == FirstIndex([k \in DOMAIN division_state_days |-> match(division_state_days[k])])
    IN  IF i = 0 THEN IntV(0) ELSE GetOr(division_state_days[i], "Days", IntV(0))

\* Column 44 (AR): Payment Days looked up from the State-Division key
PaymentDays(state_division, division_state_days) ==
    LET match(item) ==
            FStr(Get(item, "State")) \o "-" \o FStr(Get(item, "Division Name")) = state_division.s
        i == FirstIndex([k \in DOMAIN division_state_days |-> match(division_state_days[k])])
    IN  IF i = 0 THEN Str("") ELSE GetOr(division_state_days[i], "Days", Str(""))

\* Column 45 (AS): Sale_Date plus Payment Days
DueDate(sale_date, payment_days) ==
    IF sale_date.k = "datetime" /\ payment_days.k = "int"
    THEN DateTime(sale_date.n + payment_days.n)
    ELSE Str("")

\* Column 47 (AU): Sub Division looked up from the Division Name
SubDivisionName(division, division_to_subdivision) ==
    LET match(item) == PyEq(Get(item, "Division"), division)
        i == FirstIndex([k \in DOMAIN division_to_subdivision |-> match(division_to_subdivision[k])])
    IN  IF i = 0 THEN Str("") ELSE GetOr(division_to_subdivision[i], "Sub Division", Str(""))

\* str(row.get('Delot_Ind', "")).upper() == "TRUE"
DelotInd(row) ==
    LET v == GetOr(row, "Delot_Ind", Str(""))
    IN  IF v.k = "bool" THEN v.n = 1 ELSE v.k = "str" /\ Upper(v.s) = "TRUE"

\* Column 48 (AV): Gross Amount
GrossAmount(row) ==
    LET gross_tot == Get(row, "Gross_Tot")
        sale_no == Get(row, "Sale_No")
    IN  IF DelotInd(row) /\ gross_tot.k \in {"int", "float"} /\ sale_no.k \in {"int", "float"}
        THEN gross_tot.n - sale_no.n
        ELSE IF gross_tot.k \in {"int", "float"} THEN gross_tot.n
        ELSE 0

\* variant of To be Collected: always the Day15 value
ToBeCollectedDay15(row, today) ==
    LET source_tbc_val == Get(row, "Day15")
    IN  IF source_tbc_val.k \in {"int", "float"} THEN source_tbc_val.n ELSE 0

\* Column 50 (AX): To be Collected, the Day<d> value of the reporting day
ToBeCollected(row, today) ==
    LET source_tbc_val == Get(row, DayKey(today.dom))
    IN  IF source_tbc_val.k \in {"int", "float"} THEN source_tbc_val.n ELSE 0

\* Column 51 (AY): Payable to Vendor
PayableToVendor(delot_ind, to_be_collected, gross_amount) ==
    IF delot_ind /\ to_be_collected = 0 THEN gross_amount ELSE 0

\* Column 55 (BC): days late
DaysLate(row, payable, today) ==
    LET cheque_date_val == Get(row, "Cheque_Date")
    IN  IF PyEq(Float(payable), Get(row, "Gross_Tot")) /\ cheque_date_val.k = "datetime"
           /\ today.num - cheque_date_val.n > 0
        THEN IntV(today.num - cheque_date_val.n)
        ELSE Str("")

\* variant of Month and Year: derived from every true Sale_Date, whatever the
\* Description
MonthYearOfAnyRow(row, sale_date) ==
    IF sale_date.k = "datetime"
    THEN [Month |-> Str(MonthLabel(sale_date.n)), Year |-> IntV(YearOf(sale_date.n))]
    ELSE [Month |-> Str(""), Year |-> Str("")]

\* Columns 52 (AZ) and 53 (BA): Month and Year of the Sale_Date of a described row
MonthYear(row, sale_date) ==
    IF Truthy(Get(row, "Description")) /\ sale_date.k = "datetime"
    THEN [Month |-> Str(MonthLabel(sale_date.n)), Year |-> IntV(YearOf(sale_date.n))]
    ELSE [Month |-> Str(""), Year |-> Str("")]

\* variant of the derivation: every row, classified or not, leaves with the
\* derived fields present, left empty
DeriveRowBlankFields(row, lookups, today) ==
    [f \in (DOMAIN row) \cup DerivedFields |-> IF f \in DOMAIN row THEN row[f] ELSE Str("")]

\* the body of the derivation loop for one kept row
DeriveRow(row, lookups, today) ==
    IF ~Truthy(Get(row, "Classification")) THEN row
    ELSE
    LET division_name == DivisionName(row, lookups.divisionno_to_division)
        state_division == StateDivisionName(row, division_name)
        payment_days == PaymentDays(state_division, lookups.division_state_days)
        sale_date == Get(row, "Sale_Date")
        gross == GrossAmount(row)
        tbc == ToBeCollected(row, today)
        payable == PayableToVendor(DelotInd(row), tbc, gross)
    IN  [f \in (DOMAIN row) \cup DerivedFields |->
            IF f = "State-Division Name" THEN state_division
            ELSE IF f = "Payment Days" THEN payment_days
            ELSE IF f = "Due Date" THEN DueDate(sale_date, payment_days)
            ELSE IF f = "Division Name" THEN division_name
            ELSE IF f = "Sub Division Name"
                 THEN SubDivisionName(division_name, lookups.division_to_subdivision)
            ELSE IF f = "Gross Amount" THEN Float(gross)
            ELSE IF f = "To be Collected" THEN Float(tbc)
            ELSE IF f = "Collected" THEN Float(gross - tbc)
            ELSE IF f = "Payable to Vendor" THEN Float(payable)
            ELSE IF f = "Month" THEN MonthYear(row, sale_date).Month
            ELSE IF f = "Year" THEN MonthYear(row, sale_date).Year
            ELSE IF f = "Cheque Date Y/N"
                 THEN (IF Truthy(Get(row, "Cheque_Date")) THEN Str("YES") ELSE Str("NO"))
            ELSE IF f = "Days Late for Vendors Pmt" THEN DaysLate(row, payable, today)
            ELSE row[f]]

\* ------------------------------------------------- export and workbooks
\* the columns of aging_report_base_fields that the rows of this model carry,
\* in declared order
ExportHeaders ==
    <<"Classification", "Sale_No", "Description", "Division", "Sale_Date",
      "Gross_Tot", "Delot_Ind", "Cheque_Date", "Day14", "Day15", "State",
      "State-Division Name", "Payment Days", "Due Date", "Division Name",
      "Sub Division Name", "Gross Amount", "Collected", "To be Collected",
      "Payable to Vendor", "Month", "Year", "Cheque Date Y/N",
      "Days Late for Vendors Pmt", "Comments">>

\* position of the Due Date column (row[44] of the full 56-column sheet)
DueDateColumn == CHOOSE i \in DOMAIN ExportHeaders : ExportHeaders[i] = "Due Date"

\* Workbook.create_sheet(title): a title already in use gets the suffix 1
CreateSheet(wb, title) ==
    LET used == {wb[i].title : i \in DOMAIN wb}
    IN  Append(wb, [title |-> IF title \in used THEN title \o "1" ELSE title, rows |-> <<>>])

\* variant of the export row: the cells are laid out from the last field to
\* the first
ExportRowReversed(headers, item) ==
    [c \in DOMAIN headers |-> GetOr(item, headers[Len(headers) + 1 - c], Str(""))]

\* the cells export_data writes for one record
ExportRow(headers, item) == [c \in DOMAIN headers |-> GetOr(item, headers[c], Str(""))]

\* ExportSchema.export_data of aging_report_export_schema (no sort key):
\* [ok, wb, errs]; `fails` is an internal write error of the sheet
ExportData(headers, data, wb, sheet_name, fails) ==
    IF fails
    THEN [ok |-> FALSE, wb |-> wb, errs |-> <<"Error exporting data to " \o sheet_name>>]
    ELSE LET created == CreateSheet(wb, sheet_name)
             n == Len(created)
             cells == <<[c \in DOMAIN headers |-> Str(headers[c])]>>
                      \o [i \in DOMAIN data |-> ExportRow(headers, data[i])]
         IN  [ok |-> TRUE, wb |-> [created EXCEPT ![n].rows = cells], errs |-> <<>>]

\* datetime.min as a day number
DateTimeMin == 0

\* key=lambda row: row[44].value if row[44].value else datetime.min
SortKey(cells) == IF Truthy(cells[DueDateColumn]) THEN cells[DueDateColumn].n ELSE DateTimeMin

\* sorted(): the positions of `rows` in stable non-decreasing key order
SortedOrder(rows) ==
    LET before(i, j) == SortKey(rows[i]) < SortKey(rows[j])
                        \/ (SortKey(rows[i]) = SortKey(rows[j]) /\ i < j)
        rank(i) == Cardinality({j \in DOMAIN rows : before(j, i)}) + 1
    IN  [k \in DOMAIN rows |-> CHOOSE i \in DOMAIN rows : rank(i) = k]

\* the write-back loop: sorted_data holds the sheet's own cells, so row k
\* receives what row order[k] holds at that moment
RECURSIVE WriteBack(_, _, _)
WriteBack(rows, order, k) ==
    IF k > Len(rows) THEN rows
    ELSE WriteBack([rows EXCEPT ![k] = rows[order[k]]], order, k + 1)

\* the Due Date sort of a FULLY PAID sheet: [ok, rows]; sheet[2:max_row] is
\* empty for a header-only sheet, a single row of cells when max_row = 2
\* (whose cells cannot be indexed: TypeError), and a tuple of rows otherwise
SortFullyPaid(sheet_rows) ==
    LET max_row == Len(sheet_rows)
        data == Tail(sheet_rows)
    IN  IF max_row <= 1 THEN [ok |-> TRUE, rows |-> sheet_rows]
        ELSE IF max_row = 2 THEN [ok |-> FALSE, rows |-> sheet_rows]
        ELSE [ok |-> TRUE, rows |-> <<Head(sheet_rows)>> \o WriteBack(data, SortedOrder(data), 1)]

\* filter_criteria and the archive entry of each report type, in dict order
ReportTypes == <<"DivAUTO", "DivINDUSTRIAL", "DivCONSUMER">>

FilterCriteria(report_type) ==
    CASE report_type = "DivAUTO" ->
            {"BANKING, INSOLVENCY & FINANCE", "CONSUMER", "INDUSTRIAL", "WINE"}
      [] report_type = "DivINDUSTRIAL" ->
            {"AUTO W", "CONSUMER", "BOATS", "CARAVANS", "WINE"}
      [] report_type = "DivCONSUMER" ->
            {"AUTO", "BANKING, INSOLVENCY & FINANCE", "BOATS", "CARAVANS", "INDUSTRIAL", "WINE"}

ReportFileName(report_type, date_str) ==
    CASE report_type = "DivAUTO" ->
            "All Sales Aged Balance Report " \o date_str \o " - Auto.xlsx"
      [] report_type = "DivINDUSTRIAL" ->
            "All Sales Aged Balance Report " \o date_str \o " - Industrial.xlsx"
      [] report_type = "DivCONSUMER" ->
            "All Sales Aged Balance Report " \o date_str \o " 1156 - Consumer.xlsx"

\* variant of the selection: rows are picked by their Division Name
SelectedRowsByDivisionName(data, report_type) ==
    LET sel(row) == Get(row, "Division Name").k = "str"
                    /\ Get(row, "Division Name").s \in FilterCriteria(report_type)
    IN  SelectSeq(data, sel)

\* rows of one division workbook and its two sheets
SelectedRows(data, report_type) ==
    LET sel(row) == Get(row, "Sub Division Name").k = "str"
                    /\ Get(row, "Sub Division Name").s \in FilterCriteria(report_type)
    IN  SelectSeq(data, sel)

FullyPaid(data) ==
    LET paid(row) == PyEq(Get(row, "To be Collected"), Float(0))
    IN  SelectSeq(data, paid)

NotFullyPaid(data) ==
    LET unpaid(row) == ~PyEq(Get(row, "To be Collected"), Float(0))
    IN  SelectSeq(data, unpaid)

\* variant of the report type loop: a failed NOT FULLY PAID export is passed
\* over and the workbook is kept with its first sheet only
DivisionWorkbookPartial(data, report_type, fail_fp, fail_nfp) ==
    LET filtered_data == SelectedRows(data, report_type)
        fp == ExportData(ExportHeaders, FullyPaid(filtered_data), <<>>, "FULLY PAID", fail_fp)
        nfp == ExportData(ExportHeaders, NotFullyPaid(filtered_data), fp.wb, "NOT FULLY PAID", fail_nfp)
        sorted == SortFullyPaid(fp.wb[1].rows)
    IN  IF ~fp.ok THEN [status |-> "export", wb |-> <<>>, errs |-> fp.errs]
        ELSE IF ~sorted.ok
        THEN [status |-> "raise", wb |-> <<>>,
              errs |-> <<"Error processing file: 'Cell' object is not subscriptable">>]
        ELSE [status |-> "ok", wb |-> [nfp.wb EXCEPT ![1].rows = sorted.rows], errs |-> <<>>]

\* one iteration of the report type loop: [status, wb, errs]; status is "ok",
\* "export" (an export_data call returned False) or "raise" (the sort raised)
DivisionWorkbook(data, report_type, fail_fp, fail_nfp) ==
    LET filtered_data == SelectedRows(data, report_type)
        fp == ExportData(ExportHeaders, FullyPaid(filtered_data), <<>>, "FULLY PAID", fail_fp)
        nfp == ExportData(ExportHeaders, NotFullyPaid(filtered_data), fp.wb, "NOT FULLY PAID", fail_nfp)
        sorted == SortFullyPaid(fp.wb[1].rows)
    IN  IF ~fp.ok THEN [status |-> "export", wb |-> <<>>, errs |-> fp.errs]
        ELSE IF ~nfp.ok THEN [status |-> "export", wb |-> <<>>, errs |-> nfp.errs]
        ELSE IF ~sorted.ok
        THEN [status |-> "raise", wb |-> <<>>,
              errs |-> <<"Error processing file: 'Cell' object is not subscriptable">>]
        ELSE [status |-> "ok", wb |-> [nfp.wb EXCEPT ![1].rows = sorted.rows], errs |-> <<>>]

\* the main workbook before the export: the renamed active sheet and Tables
TemplateWorkbook(mapping_file) ==
    <<[title |-> "---DATA---", rows |-> <<>>],
      [title |-> "Tables", rows |-> mapping_file.table]>>

\* ------------------------------------------------- aging: requests
SeqsUpTo(S, n) == UNION {[1..k -> S] : k \in 0..n}

\* a mapping file that parses: two divisions with payment terms for NSW
StdMapping ==
    [encoding |-> "utf-8",
     table |-> <<<<"Division", "Sub Division", "", "DivisionNo", "Division", "",
                   "Division Name", "State", "", "Days">>,
                 <<"MOTOR", "AUTO", "", "1", "MOTOR", "", "MOTOR", "NSW", "", "30">>,
                 <<"WINES", "WINE", "", "2", "WINES", "", "WINES", "NSW", "", "45">>>>]

\* mapping files: undecodable, empty, and tables under the usual, renamed and
\* too few headers whose rows repeat keys, are short, or carry unusable days
MappingFiles ==
    LET StdHeaders == StdMapping.table[1]
        RenamedHeaders ==
            <<"Div", "Sub Div", "", "Div No", "Div Name", "", "Division", "Region", "", "Terms">>
        ShortHeaders == SubSeq(StdHeaders, 1, 5)
        MapMotor == StdMapping.table[2]
        MapWines == StdMapping.table[3]
        MapClash == <<"MOTOR", "CONSUMER", "", "1", "WINES", "", "MOTOR", "NSW", "", "45">>
        MapShort == SubSeq(MapMotor, 1, 5)
        MapNoDays == <<"MOTOR", "AUTO", "", "1", "MOTOR", "", "MOTOR", "NSW", "", "n/a">>
        MapBlank == <<"", "AUTO", "", "1", "", "", "MOTOR", "", "", " 30 ">>
        MapRows == {MapMotor, MapWines, MapClash, MapShort, MapNoDays, MapBlank}
    IN  {[encoding |-> "latin-1", table |-> <<>>], [encoding |-> "utf-8", table |-> <<>>]}
        \cup {[encoding |-> "utf-8", table |-> <<h>> \o rows] :
                h \in {StdHeaders, RenamedHeaders, ShortHeaders},
                rows \in SeqsUpTo(MapRows, MaxMapRows)}

BaseRow ==
    [Classification |-> "INV", Sale_No |-> "10", Description |-> "Widget",
     Division |-> "1", Sale_Date |-> "01/02/2025", Gross_Tot |-> "100",
     Delot_Ind |-> "FALSE", Cheque_Date |-> "", Day14 |-> "", Day15 |-> "0"]

OneRowFile(token, raw) ==
    [name |-> [stem |-> "Sales Aged Balance ", token |-> token, ext |-> ".csv"],
     encoding |-> "utf-8", rows |-> <<raw>>]

\* the calls of process_uploaded_file: single-row requests that vary the fields
\* read by the exclusion filter, by the amount formulas, and by the lookups and
\* date derivations; requests that vary the mapping file; multi-file requests
AgingRequests ==
    LET Today15 == [dom |-> 15, num |-> 20134, stamp |-> "20250215"]
        Today14 == [dom |-> 14, num |-> 20133, stamp |-> "20250214"]
        FilterSlice ==
            {[BaseRow EXCEPT !.Cheque_Date = c, !.Gross_Tot = g, !.Description = d,
                             !.Classification = cl] :
                c \in {"", "01/02/2025", "31/02/2025"},
                g \in {"", "0", "0.00", "100", "abc"},
                d \in DOMAIN Occurs,
                cl \in {"", "INV"}}
        AmountSlice ==
            {[BaseRow EXCEPT !.Delot_Ind = dl, !.Gross_Tot = g, !.Sale_No = sn,
                             !.Day14 = d14, !.Day15 = d15] :
                dl \in {"", "TRUE", "FALSE", "y"},
                g \in {"", "100", "250", "abc"},
                sn \in {"", "10"},
                d14 \in {"", "100"},
                d15 \in {"", "0", "250", "abc"}}
        LookupSlice ==
            {[BaseRow EXCEPT !.Division = dv, !.Sale_Date = sd, !.Description = d,
                             !.Classification = cl] :
                dv \in {"", "1", "2", "9"},
                sd \in {"", "01/02/2025 10:30", "01/02/2025 10:30:00 AM", "05/02/2025",
                        "31/02/2025"},
                d \in {"", "Widget"},
                cl \in {"", "INV"}}
        RowRequests ==
            {[mapping_file |-> StdMapping, data_files |-> <<OneRowFile("NSW", raw)>>,
              today |-> Today15] : raw \in FilterSlice}
            \cup {[mapping_file |-> StdMapping, data_files |-> <<OneRowFile("NSW", raw)>>,
                   today |-> t] : raw \in AmountSlice, t \in {Today14, Today15}}
            \cup {[mapping_file |-> StdMapping, data_files |-> <<OneRowFile(tok, raw)>>,
                   today |-> Today15] : raw \in LookupSlice, tok \in {"nsw", "VIC"}}
        MappingRequests ==
            {[mapping_file |-> m,
              data_files |-> <<OneRowFile("NSW", [BaseRow EXCEPT !.Division = dv])>>,
              today |-> Today15] : m \in MappingFiles, dv \in {"", "1", "2"}}
        \* fully paid with a late, no and an early due date, and one not fully paid
        BatchRows ==
            {[BaseRow EXCEPT !.Division = "2", !.Sale_Date = "05/02/2025"],
             [BaseRow EXCEPT !.Division = "2", !.Sale_Date = ""],
             [BaseRow EXCEPT !.Division = "2"],
             [BaseRow EXCEPT !.Day15 = "250"]}
        BatchFiles ==
            {[OneRowFile("NSW", BaseRow) EXCEPT !.name.stem = "report ", !.rows = <<>>],
             [OneRowFile("NSW", BaseRow) EXCEPT !.encoding = "latin-1", !.rows = <<>>]}
            \cup {[OneRowFile("NSW", BaseRow) EXCEPT !.rows = rows] :
                    rows \in SeqsUpTo(BatchRows, MaxRows)}
        BatchRequests ==
            {[mapping_file |-> StdMapping, data_files |-> fs, today |-> Today15] :
                fs \in SeqsUpTo(BatchFiles, MaxFiles)}
    IN  RowRequests \cup MappingRequests \cup BatchRequests

\* ------------------------------------------------------------------ state
VARIABLES
    svc,        \* the service whose entry point was called last
    pc,         \* position in the entry point: "idle" before the call, "done"
                \* once it has returned
    req,        \* the arguments of the call
    errors,     \* the call's local errors list
    response,   \* the ResponseBase the call returns
    work        \* the call's other locals

vars == <<svc, pc, req, errors, response, work>>

AgingLocals ==
    [i |-> 1, filtered |-> <<>>, rows |-> <<>>, zip |-> <<>>, r |-> 1,
     lookups |-> [division_to_subdivision |-> <<>>, divisionno_to_division |-> <<>>,
                  division_state_days |-> <<>>]]

Init ==
    /\ svc = "none"
    /\ pc = "idle"
    /\ req = <<>>
    /\ errors = <<>>
    /\ response = ResponseBase
    /\ work = <<>>

\* a return through _handle_errors
Fail(errs) ==
    /\ errors' = errs
    /\ response' = HandleErrors(errs, response)
    /\ pc' = "done"

\* ------------------------------------------------- aging: process_uploaded_file
\* variant of the entry: the response's errors list is shared by all
\* ResponseBase objects, so it still holds what earlier calls put there
AgingCallSharedErrors ==
    /\ pc = "idle"
    /\ \E r \in AgingRequests :
        /\ req' = r
        /\ svc' = "aging"
        /\ work' = AgingLocals
        /\ IF r.data_files = <<>>
           THEN /\ errors' = <<"No data files provided">>
                /\ response' = HandleErrors(<<"No data files provided">>,
                                            [ResponseBase EXCEPT !.errors = response.errors])
                /\ pc' = "done"
           ELSE /\ errors' = <<>>
                /\ response' = [ResponseBase EXCEPT !.errors = response.errors]
                /\ pc' = "files"

\* entry: fresh errors and response; no data files is fatal
AgingCall ==
    /\ pc = "idle"
    /\ \E r \in AgingRequests :
        /\ req' = r
        /\ svc' = "aging"
        /\ work' = AgingLocals
        /\ IF r.data_files = <<>>
           THEN /\ errors' = <<"No data files provided">>
                /\ response' = HandleErrors(<<"No data files provided">>, ResponseBase)
                /\ pc' = "done"
           ELSE /\ errors' = <<>>
                /\ response' = ResponseBase
                /\ pc' = "files"

\* one iteration of the data file loop
AgingDataFile ==
    /\ svc = "aging" /\ pc = "files"
    /\ LET out == ProcessDataFile(req.data_files[work.i])
       IN  /\ errors' = errors \o out.errs
           /\ work' = [work EXCEPT !.i = @ + 1, !.filtered = @ \o out.rows]
    /\ pc' = IF work.i = Len(req.data_files) THEN "mapping" ELSE "files"
    /\ UNCHANGED <<svc, req, response>>

\* the mapping file load; None is fatal
AgingMapping ==
    /\ svc = "aging" /\ pc = "mapping"
    /\ LET m == LoadMapping(req.mapping_file)
       IN  IF ~m.ok
           THEN /\ Fail(errors \o m.errs)
                /\ UNCHANGED work
           ELSE /\ errors' = errors \o m.errs
                /\ work' = [work EXCEPT !.lookups =
                              [division_to_subdivision |-> m.division_to_subdivision,
                               divisionno_to_division |-> m.divisionno_to_division,
                               division_state_days |-> m.division_state_days]]
                /\ pc' = "derive"
                /\ UNCHANGED response
    /\ UNCHANGED <<svc, req>>

\* the derivation loop over all kept rows
AgingDerive ==
    /\ svc = "aging" /\ pc = "derive"
    /\ work' = [work EXCEPT !.rows =
                  [i \in DOMAIN work.filtered |-> DeriveRow(work.filtered[i], work.lookups, req.today)]]
    /\ pc' = "export"
    /\ UNCHANGED <<svc, req, errors, response>>

\* the main workbook: Tables sheet, export of all rows, first archive entry
AgingExportMain ==
    /\ svc = "aging" /\ pc = "export"
    /\ \E fails \in BOOLEAN :
        LET out == ExportData(ExportHeaders, work.rows, TemplateWorkbook(req.mapping_file),
                              "---DATA---", fails)
        IN  IF ~out.ok
            THEN /\ Fail(errors \o out.errs)
                 /\ UNCHANGED work
            ELSE /\ work' = [work EXCEPT !.zip =
                               <<[name |-> "Sales_Aged_Balance_Report_" \o req.today.stamp \o ".xlsx",
                                  content |-> out.wb]>>]
                 /\ pc' = "divisions"
                 /\ UNCHANGED <<errors, response>>
    /\ UNCHANGED <<svc, req>>

\* one iteration of the report type loop
AgingDivision ==
    /\ svc = "aging" /\ pc = "divisions"
    /\ \E fail_fp, fail_nfp \in BOOLEAN :
        LET report_type == ReportTypes[work.r]
            out == DivisionWorkbook(work.rows, report_type, fail_fp, fail_nfp)
        IN  IF out.status # "ok"
            THEN /\ Fail(errors \o out.errs)
                 /\ UNCHANGED work
            ELSE /\ work' = [work EXCEPT !.r = @ + 1,
                               !.zip = Append(@, [name |-> ReportFileName(report_type, req.today.stamp),
                                                  content |-> out.wb])]
                 /\ pc' = IF work.r = Len(ReportTypes) THEN "package" ELSE "divisions"
                 /\ UNCHANGED <<errors, response>>
    /\ UNCHANGED <<svc, req>>

\* variant of the return: the errors collected on skipped files are handed to
\* _handle_errors after the archive is attached
AgingReturnFlushing ==
    /\ svc = "aging" /\ pc = "package"
    /\ response' = HandleErrors(errors,
                     [response EXCEPT !.data =
                        [name |-> "[pygrays]Sales_Aged_Balance_Reports_" \o req.today.stamp \o ".zip",
                         content |-> work.zip]])
    /\ pc' = "done"
    /\ UNCHANGED <<svc, req, errors, work>>

\* the archive is attached and the response returned
AgingReturn ==
    /\ svc = "aging" /\ pc = "package"
    /\ response' = [response EXCEPT !.data =
                      [name |-> "[pygrays]Sales_Aged_Balance_Reports_" \o req.today.stamp \o ".zip",
                       content |-> work.zip]]
    /\ pc' = "done"
    /\ UNCHANGED <<svc, req, errors, work>>

AgingNext ==
    \/ AgingCall
    \/ AgingDataFile
    \/ AgingMapping
    \/ AgingDerive
    \/ AgingExportMain
    \/ AgingDivision
    \/ AgingReturn

SpecAging == Init /\ [][AgingNext]_vars

\* ------------------------------------------------- inventory: CSV loading
\* a decimal.Decimal: n is the number in tenths, s its text
Decimal(x, text) == [k |-> "decimal", n |-> x, s |-> text]

\* re.sub(r'[^\d.]', '', text) of the cells used here
CleanDecimal(t) ==
    CASE t = "$1.0" -> "1.0"
      [] t = "-2" -> "2"
      [] t = "1E+2" -> "12"
      [] t = "abc" -> ""
      [] OTHER -> t

\* decimal.Decimal(text), in tenths; other texts raise InvalidOperation
DecimalText ==
    [t \in {"1", "1.0", "2", "5", "11", "12"} |->
        CASE t = "1" -> 10 [] t = "1.0" -> 10 [] t = "2" -> 20 [] t = "5" -> 50 [] t = "11" -> 110
          [] t = "12" -> 120]

\* the import schemas of InventoryService, with the columns this model carries
uom_mapping_schema == [c \in {"Item", "UOM"} |-> IF c = "UOM" THEN "Decimal" ELSE "str"]

dropship_sales_import_schema ==
    [c \in {"AX_ProductCode", "Units", "Amount", "DealNo"} |->
        CASE c = "Units" -> "int" [] c = "Amount" -> "Decimal" [] OTHER -> "str"]

deals_import_schema ==
    [c \in {"AX_ProductCode", "Units", "Amount", "DealNo", "DivisionCode"} |->
        CASE c = "Units" -> "int" [] c = "Amount" -> "Decimal" [] OTHER -> "str"]

\* _load_csv_from_bytes: [ok, rows]; the first TextIOWrapper closes the
\* buffer when it is dropped, so only bytes that decode as UTF-8 and hold at
\* least one row are read
LoadCsvFromBytes(file) ==
    IF Decodes(file, "utf-8-sig") /\ file.table # <<>>
    THEN [ok |-> TRUE, rows |-> file.table]
    ELSE [ok |-> FALSE, rows |-> <<>>]

\* the cell conversion of _load_csv_data: [ok, value]
LoadCell(expected_type, t) ==
    IF t = "" THEN [ok |-> TRUE, value |-> Str("")]
    ELSE IF expected_type = "Decimal"
    THEN (IF CleanDecimal(t) \in DOMAIN DecimalText
          THEN [ok |-> TRUE, value |-> Decimal(DecimalText[CleanDecimal(t)], CleanDecimal(t))]
          ELSE [ok |-> FALSE, value |-> Str(CleanDecimal(t))])
    ELSE IF expected_type = "int"
    THEN \* int(re.sub(r'[^\d]', '', text)) of the cells used here
         [ok |-> TRUE,
          value |-> IntV(CASE t \in {"3", "3 ea"} -> 3 [] t = "1" -> 1 [] OTHER -> 0)]
    ELSE [ok |-> TRUE, value |-> Str(t)]

\* the row loop of _load_csv_data for one data row: "ok", "columns" (wrong
\* number of columns) or "decimal" (a Decimal column does not parse)
RowStatus(schema, headers, row) ==
    IF Len(row) # Len(headers) THEN "columns"
    ELSE IF \E i \in DOMAIN headers :
                headers[i] \in DOMAIN schema /\ ~LoadCell(schema[headers[i]], row[i]).ok
    THEN "decimal"
    ELSE "ok"

LoadRow(schema, headers, row) ==
    [h \in SeqToSet(headers) |->
        LET i == CHOOSE j \in DOMAIN headers :
                    headers[j] = h /\ \A m \in DOMAIN headers : headers[m] = h => m <= j
        IN  IF h \in DOMAIN schema THEN LoadCell(schema[h], row[i]).value ELSE Str(row[i])]

\* _load_csv_data: [rows, errs]; one error per skipped row
LoadCsvData(file, schema) ==
    LET loaded == LoadCsvFromBytes(file)
        headers == Head(loaded.rows)
        body == Tail(loaded.rows)
        good(row) == RowStatus(schema, headers, row) = "ok"
        bad(row) == RowStatus(schema, headers, row) # "ok"
        kept == SelectSeq(body, good)
        skipped == SelectSeq(body, bad)
    IN  IF ~loaded.ok THEN [rows |-> <<>>, errs |-> <<"Error processing file">>]
        ELSE IF \E c \in DOMAIN schema : c \notin SeqToSet(headers)
        THEN [rows |-> <<>>, errs |-> <<"Missing required columns">>]
        ELSE [rows |-> [i \in DOMAIN kept |-> LoadRow(schema, headers, kept[i])],
              errs |-> [i \in DOMAIN skipped |->
                          IF RowStatus(schema, headers, skipped[i]) = "columns"
                          THEN "mismatched number of columns"
                          ELSE "invalid decimal value"]]

\* ------------------------------------------------- inventory: UOM mapping
\* the map built by the loop of _load_uom_mapping_from_csv: first value wins
ItemUomMap(rows) ==
    [item \in {rows[i]["Item"] : i \in DOMAIN rows} |->
        rows[CHOOSE i \in DOMAIN rows :
                rows[i]["Item"] = item /\ \A j \in 1..(i - 1) : rows[j]["Item"] # item]["UOM"]]

\* conflicting_items: per item the first value followed by every later value
\* that differs from it, in row order
ConflictingItems(rows) ==
    LET first == ItemUomMap(rows)
        differs(item) == LET d(r) == r["Item"] = item /\ ~PyEq(r["UOM"], first[item])
                         IN  SelectSeq(rows, d)
    IN  [item \in {it \in DOMAIN first : differs(it) # <<>>} |->
            <<first[item]>> \o [i \in DOMAIN differs(item) |-> differs(item)[i]["UOM"]]]

\* ', '.join(map(str, uoms))
RECURSIVE JoinValues(_)
JoinValues(uoms) ==
    IF uoms = <<>> THEN ""
    ELSE IF Len(uoms) = 1 THEN uoms[1].s
    ELSE uoms[1].s \o ", " \o JoinValues(Tail(uoms))

ConflictError(item, uoms) ==
    "Item " \o item.s \o " has conflicting UOM values: " \o JoinValues(uoms)

\* the conflict errors, one per conflicting item in order of first conflict
ConflictErrors(rows) ==
    LET conflicts == ConflictingItems(rows)
        first_clash(i) == rows[i]["Item"] \in DOMAIN conflicts
                          /\ ~PyEq(rows[i]["UOM"], conflicts[rows[i]["Item"]][1])
                          /\ \A j \in 1..(i - 1) :
                                rows[j]["Item"] = rows[i]["Item"]
                                => PyEq(rows[j]["UOM"], conflicts[rows[i]["Item"]][1])
        at == {i \in DOMAIN rows : first_clash(i)}
        nth(k) == CHOOSE i \in at : Cardinality({j \in at : j < i}) = k - 1
    IN  [k \in 1..Cardinality(at) |->
            ConflictError(rows[nth(k)]["Item"], conflicts[rows[nth(k)]["Item"]])]

\* _load_uom_mapping_from_csv: [ok, map, errs]; ok is FALSE when the method
\* returns None
LoadUomMapping(csv_file) ==
    LET loaded == LoadCsvData(csv_file, uom_mapping_schema)
    IN  IF Len(loaded.errs) > 0
        THEN [ok |-> FALSE, map |-> <<>>, errs |-> loaded.errs]
        ELSE IF DOMAIN ConflictingItems(loaded.rows) # {}
        THEN [ok |-> FALSE, map |-> <<>>,
              errs |-> <<"CSV contains duplicate item numbers with different UOM values">>
                       \o ConflictErrors(loaded.rows)]
        ELSE [ok |-> TRUE, map |-> ItemUomMap(loaded.rows), errs |-> <<>>]

\* ------------------------------------------------- inventory: txt files
\* A txt file name is [category, date, ext], date being its eight digits read
\* as a number (0 when the name has none); ^<category>\d{8}\.txt$
MonthOf(name) == (name.date \div 100) % 100

YearOfName(name) == name.date \div 10000

\* sorted(files, key=lambda x: x.name) for files of one category
SortByName(files) ==
    LET before(i, j) == files[i].name.date < files[j].name.date
                        \/ (files[i].name.date = files[j].name.date /\ i < j)
        rank(i) == Cardinality({j \in DOMAIN files : before(j, i)}) + 1
    IN  [k \in DOMAIN files |-> files[CHOOSE i \in DOMAIN files : rank(i) = k]]

\* _extract_and_validate_file_dates: [month, year, valid]
ExtractAndValidateFileDates(names) ==
    IF names = <<>> THEN [month |-> 0, year |-> 0, valid |-> FALSE]
    ELSE [month |-> MonthOf(names[1]), year |-> YearOfName(names[1]),
          valid |-> \A i \in DOMAIN names :
                        /\ MonthOf(names[i]) \in 1..12
                        /\ MonthOf(names[i]) = MonthOf(names[1])
                        /\ YearOfName(names[i]) = YearOfName(names[1])]

\* the file loop of _process_*_files: stops at the first file with errors
RECURSIVE LoadFiles(_, _, _)
LoadFiles(files, schema, items) ==
    IF files = <<>> THEN [items |-> items, errs |-> <<>>]
    ELSE LET loaded == LoadCsvData(Head(files), schema)
         IN  IF Len(loaded.errs) > 0 THEN [items |-> items, errs |-> loaded.errs]
             ELSE LoadFiles(Tail(files), schema, items \o loaded.rows)

\* _process_dropship_sales_files / _process_deals_files: [ok, items, month,
\* year, errs]; ok is FALSE when the method returns (None, None, None)
ProcessTxtFiles(txt_files, category, schema) ==
    LET mine(f) == f.name.category = category /\ f.name.date > 0 /\ f.name.ext = ".txt"
        files == SortByName(SelectSeq(txt_files, mine))
        dates == ExtractAndValidateFileDates([i \in DOMAIN files |-> files[i].name])
        loaded == LoadFiles(files, schema, <<>>)
        none(msg) == [ok |-> FALSE, items |-> <<>>, month |-> 0, year |-> 0, errs |-> msg]
    IN  IF files = <<>> THEN none(<<"No " \o category \o " files found in the provided files">>)
        ELSE IF ~dates.valid
        THEN none(<<"Invalid file names - all " \o category
                    \o " files must have the same month and year">>)
        ELSE IF Len(loaded.errs) > 0 THEN none(loaded.errs)
        ELSE [ok |-> TRUE, items |-> loaded.items, month |-> dates.month,
              year |-> dates.year, errs |-> <<>>]

\* _get_month_name
MonthName(month) ==
    IF month \in 1..12
    THEN <<"January", "February", "March", "April", "May", "June", "July",
           "August", "September", "October", "November", "December">>[month]
    ELSE "Unknown"

\* f"{file_year}" of the years used here
YearText(year) == IF year = 2025 THEN "2025" ELSE IF year = 2024 THEN "2024" ELSE "?"

\* _get_mixed_deals
MixedDeals(data_dicts) ==
    LET mixed(item) == Upper(GetOr(item, "DealNo", Str("")).s) = "MIXED"
    IN  SelectSeq(data_dicts, mixed)

\* the Per_Unit_Cost and COGS cells of a Mixed or Wine row
PerUnitCost(item, unit_with_cost) ==
    GetOr(unit_with_cost, GetOr(item, "AX_ProductCode", Str("")), Str(""))

Cogs(item, unit_with_cost) ==
    LET cost == PerUnitCost(item, unit_with_cost)
        units == GetOr(item, "Units", IntV(0))
    IN  IF Truthy(cost) /\ Truthy(units) /\ cost.k = "decimal" /\ units.k = "int"
        THEN Decimal(cost.n * units.n, "") ELSE Str("")

\* [item.get(col, "") for col in required_col_names]
SheetRow(schema, item) == [c \in DOMAIN schema |-> GetOr(item, c, Str(""))]

CostedRow(schema, item, unit_with_cost) ==
    [c \in (DOMAIN schema) \cup {"Per_Unit_Cost", "COGS"} |->
        IF c = "Per_Unit_Cost" THEN PerUnitCost(item, unit_with_cost)
        ELSE IF c = "COGS" THEN Cogs(item, unit_with_cost)
        ELSE GetOr(item, c, Str(""))]

\* the workbook of stage 3: the Dropship Sales, Mixed and Wine sheets; the
\* Wine sheet is written only when there are deals rows
InventoryWorkbook(data_dicts, deals_data, unit_with_cost) ==
    <<[title |-> "Dropship Sales", written |-> TRUE,
       rows |-> [i \in DOMAIN data_dicts |->
                    SheetRow(dropship_sales_import_schema, data_dicts[i])]],
      [title |-> "Mixed", written |-> TRUE,
       rows |-> [i \in DOMAIN MixedDeals(data_dicts) |->
                    CostedRow(dropship_sales_import_schema, MixedDeals(data_dicts)[i],
                              unit_with_cost)]],
      [title |-> "Wine", written |-> deals_data # <<>>,
       rows |-> [i \in DOMAIN deals_data |->
                    CostedRow(deals_import_schema, deals_data[i], unit_with_cost)]]>>

\* ------------------------------------------------- inventory: requests
MaxUomRows == 3
MaxTxtFiles == 3
MaxTxtRows == 2

UomHeaders == <<"Item", "UOM">>

TxtName(category, date) == [category |-> category, date |-> date, ext |-> ".txt"]

CsvFile(name, headers, rows) == [name |-> name, encoding |-> "utf-8", table |-> <<headers>> \o rows]

\* the calls of process_inventory_request: requests that vary the UOM csv, the
\* names of the txt files, and the content of the txt files
InventoryRequests ==
    LET DropshipHeaders == <<"AX_ProductCode", "Units", "Amount", "DealNo">>
        DealsHeaders == <<"AX_ProductCode", "Units", "Amount", "DealNo", "DivisionCode">>
        UomRows ==
            {<<"A", "1">>, <<"A", "2">>, <<"A", "$1.0">>, <<"B", "5">>, <<"B", "">>,
             <<"B", "abc">>, <<"B">>}
        DropshipRows ==
            {<<"A", "3", "11", "MIXED">>, <<"B", "3 ea", "$1.0", "D1">>,
             <<"A", "1", "abc", "mixed">>, <<"A", "3">>}
        DealsRows ==
            {<<"A", "3", "11", "D1", "W">>, <<"A", "", "5", "D1", "W">>, <<"A", "3", "11", "D1">>}
        GoodUom == CsvFile("uom.csv", UomHeaders, <<<<"A", "1">>, <<"B", "5">>>>)
        GoodDropship ==
            CsvFile(TxtName("DropshipSales", 20250228), DropshipHeaders,
                    <<<<"A", "3", "11", "MIXED">>>>)
        GoodDeals ==
            CsvFile(TxtName("Deals", 20250228), DealsHeaders, <<<<"A", "3", "11", "D1", "W">>>>)
        UomFiles ==
            {CsvFile("uom.csv", UomHeaders, rows) : rows \in SeqsUpTo(UomRows, MaxUomRows)}
            \cup {CsvFile("uom.csv", <<"Item">>, <<<<"A">>>>),
                  [name |-> "uom.csv", encoding |-> "latin-1",
                   table |-> <<UomHeaders, <<"A", "1">>>>],
                  [name |-> "uom.csv", encoding |-> "utf-8", table |-> <<>>]}
        UomRequests ==
            {[csv_file |-> f, txt_files |-> <<GoodDropship, GoodDeals>>] : f \in UomFiles}
        TxtNames ==
            {TxtName("DropshipSales", 20250228), TxtName("DropshipSales", 20250201),
             TxtName("DropshipSales", 20250301), TxtName("DropshipSales", 20251301),
             TxtName("Deals", 20250228), TxtName("Deals", 20240228),
             TxtName("Sales", 20250228),
             [category |-> "Deals", date |-> 20250228, ext |-> ".csv"]}
        NamedFile(name) ==
            IF name.category = "Deals" THEN [GoodDeals EXCEPT !.name = name]
            ELSE [GoodDropship EXCEPT !.name = name]
        NameRequests ==
            {[csv_file |-> GoodUom, txt_files |-> [i \in DOMAIN names |-> NamedFile(names[i])]] :
                names \in SeqsUpTo(TxtNames, MaxTxtFiles)}
        DropshipFiles ==
            {CsvFile(TxtName("DropshipSales", 20250228), DropshipHeaders, rows) :
                rows \in SeqsUpTo(DropshipRows, MaxTxtRows)}
            \cup {CsvFile(TxtName("DropshipSales", 20250228),
                          <<"AX_ProductCode", "Units", "Amount">>, <<<<"A", "3", "11">>>>)}
        DealsFiles ==
            {CsvFile(TxtName("Deals", 20250228), DealsHeaders, rows) :
                rows \in SeqsUpTo(DealsRows, MaxTxtRows - 1)}
            \cup {[GoodDeals EXCEPT !.encoding = "latin-1"]}
        ContentRequests ==
            {[csv_file |-> GoodUom, txt_files |-> <<ds, dl>>] :
                ds \in DropshipFiles, dl \in DealsFiles}
            \cup {[csv_file |-> GoodUom,
                   txt_files |-> <<GoodDropship,
                                   [ds EXCEPT !.name = TxtName("DropshipSales", 20250201)],
                                   GoodDeals>>] : ds \in DropshipFiles}
    IN  UomRequests \cup NameRequests \cup ContentRequests

\* ------------------------------------------------- inventory: process_inventory_request
\* entry: fresh errors and response
InventoryCall ==
    /\ pc = "idle"
    /\ \E r \in InventoryRequests : req' = r
    /\ svc' = "inventory"
    /\ work' = [unit_with_cost |-> <<>>, data_dicts |-> <<>>, deals_data |-> <<>>,
                dropship_month |-> 0, dropship_year |-> 0, deals_month |-> 0,
                deals_year |-> 0]
    /\ errors' = <<>>
    /\ response' = ResponseBase
    /\ pc' = "uom"

\* stage 1: the UOM mapping
InventoryUom ==
    /\ svc = "inventory" /\ pc = "uom"
    /\ LET m == LoadUomMapping(req.csv_file)
       IN  IF Len(m.errs) > 0
           THEN /\ Fail(errors \o m.errs)
                /\ UNCHANGED work
           ELSE /\ work' = [work EXCEPT !.unit_with_cost = m.map]
                /\ pc' = "dropship"
                /\ UNCHANGED <<errors, response>>
    /\ UNCHANGED <<svc, req>>

\* stage 1: the DropshipSales files
InventoryDropship ==
    /\ svc = "inventory" /\ pc = "dropship"
    /\ LET d == ProcessTxtFiles(req.txt_files, "DropshipSales", dropship_sales_import_schema)
       IN  IF Len(d.errs) > 0
           THEN /\ Fail(errors \o d.errs)
                /\ UNCHANGED work
           ELSE /\ work' = [work EXCEPT !.data_dicts = d.items, !.dropship_month = d.month,
                                        !.dropship_year = d.year]
                /\ pc' = "deals"
                /\ UNCHANGED <<errors, response>>
    /\ UNCHANGED <<svc, req>>

\* stage 1: the Deals files
InventoryDeals ==
    /\ svc = "inventory" /\ pc = "deals"
    /\ LET d == ProcessTxtFiles(req.txt_files, "Deals", deals_import_schema)
       IN  IF Len(d.errs) > 0
           THEN /\ Fail(errors \o d.errs)
                /\ UNCHANGED work
           ELSE /\ work' = [work EXCEPT !.deals_data = d.items, !.deals_month = d.month,
                                        !.deals_year = d.year]
                /\ pc' = "period"
                /\ UNCHANGED <<errors, response>>
    /\ UNCHANGED <<svc, req>>

\* variant of the period check: only the months of the two file types are
\* compared
InventoryPeriodMonthOnly ==
    /\ svc = "inventory" /\ pc = "period"
    /\ IF work.dropship_month # work.deals_month
       THEN Fail(errors \o <<"Files from different periods">>)
       ELSE /\ pc' = "write"
            /\ UNCHANGED <<errors, response>>
    /\ UNCHANGED <<svc, req, work>>

\* stage 1: both file types are of one period
InventoryPeriod ==
    /\ svc = "inventory" /\ pc = "period"
    /\ IF work.dropship_month # work.deals_month \/ work.dropship_year # work.deals_year
       THEN Fail(errors \o <<"Files from different periods">>)
       ELSE /\ pc' = "write"
            /\ UNCHANGED <<errors, response>>
    /\ UNCHANGED <<svc, req, work>>

\* stages 2 and 3: the sheets are written, the workbook saved and attached;
\* any of the writes or the save may raise
InventoryWrite ==
    /\ svc = "inventory" /\ pc = "write"
    /\ \E fails \in {"none", "Dropship Sales", "Mixed", "Wine", "save"} :
        /\ fails = "Wine" => work.deals_data # <<>>
        /\ IF fails = "none"
           THEN /\ response' = [response EXCEPT !.data =
                                  [name |-> MonthName(work.dropship_month) \o "_All_Sales_"
                                            \o YearText(work.dropship_year) \o ".xlsx",
                                   content |-> InventoryWorkbook(work.data_dicts, work.deals_data,
                                                                 work.unit_with_cost)]]
                /\ pc' = "done"
                /\ UNCHANGED errors
           ELSE IF fails = "save"
           THEN Fail(errors \o <<"Error saving workbook">>)
           ELSE Fail(errors \o <<"Error writing to " \o fails \o " sheet">>)
    /\ UNCHANGED <<svc, req, work>>

InventoryNext ==
    \/ InventoryCall
    \/ InventoryUom
    \/ InventoryDropship
    \/ InventoryDeals
    \/ InventoryPeriod
    \/ InventoryWrite

SpecInventory == Init /\ [][InventoryNext]_vars

\* ------------------------------------------------- bank statement
REQUIRED_ACCOUNTS ==
    <<"032075843041", "030162001011700001", "034003431178", "034008460699",
      "032075842049", "034702307846", "032075840422", "036011606934">>

REQUIRED_CSV_COLUMNS ==
    <<"TRAN_DATE", "ACCOUNT_NO", "ACCOUNT_NAME", "CCY", "CLOSING_BAL", "AMOUNT",
      "TRAN_CODE", "NARRATIVE", "SERIAL">>

NUMERIC_COLUMNS == {"TRAN_DATE", "AMOUNT", "CLOSING_BAL"}

\* the texts of a statement in the order of str's <, and the number Decimal
\* reads from them (in tenths)
StatementTexts == <<"", "032075843041", "034003431178", "10", "20250101", "20250102", "999", "abc">>

StatementNumber(t) ==
    CASE t = "10" -> 100
      [] t = "20250101" -> 202501010
      [] t = "20250102" -> 202501020
      [] OTHER -> -1

\* _load_csv_data of BankStatementService: [ok, data, errs]; a file is
\* [name, encoding, headers, rows], headers = <<>> for a file without a line
BankLoadCsvData(csv_file) ==
    LET headers == [i \in DOMAIN csv_file.headers |-> Strip(csv_file.headers[i])]
        cell(row, col) ==
            IF \E i \in DOMAIN csv_file.headers : csv_file.headers[i] = col /\ i <= Len(row)
            THEN Strip(row[CHOOSE i \in DOMAIN csv_file.headers :
                               /\ csv_file.headers[i] = col
                               /\ \A j \in DOMAIN csv_file.headers :
                                     csv_file.headers[j] = col => j <= i])
            ELSE ""
        none(msg) == [ok |-> FALSE, data |-> <<>>, errs |-> <<msg>>]
    IN  IF ~Decodes(csv_file, "utf-8-sig") THEN none("Error loading CSV data")
        ELSE IF csv_file.headers = <<>> THEN none("CSV file has no headers")
        ELSE IF headers # REQUIRED_CSV_COLUMNS THEN none("Invalid CSV headers")
        ELSE [ok |-> TRUE,
              data |-> [r \in DOMAIN csv_file.rows |->
                          [col \in SeqToSet(headers) |-> Str(cell(csv_file.rows[r], col))]],
              errs |-> <<>>]

\* variant of the account filter: rows without a date are dropped and no
\* account is
FilterByDate(data) ==
    LET dated(row) == GetOr(row, "TRAN_DATE", Str("")).s # ""
    IN  SelectSeq(data, dated)

\* _filter_by_accounts
FilterByAccounts(data) ==
    LET required(row) == GetOr(row, "ACCOUNT_NO", Str("")).s \in SeqToSet(REQUIRED_ACCOUNTS)
    IN  SelectSeq(data, required)

\* _convert_numeric_columns: Decimal where the text parses, else unchanged
ConvertNumericColumns(data) ==
    [r \in DOMAIN data |->
        [col \in DOMAIN data[r] |->
            IF col \in NUMERIC_COLUMNS /\ data[r][col].s # ""
               /\ StatementNumber(data[r][col].s) >= 0
            THEN Decimal(StatementNumber(data[r][col].s), data[r][col].s)
            ELSE data[r][col]]]

\* sorted(data, key=lambda x: str(x.get(col, ''))), stable
SortByText(data, col) ==
    LET TextRank(t) == CHOOSE i \in DOMAIN StatementTexts : StatementTexts[i] = t
        key(i) == TextRank(GetOr(data[i], col, Str("")).s)
        before(i, j) == key(i) < key(j) \/ (key(i) = key(j) /\ i < j)
        rank(i) == Cardinality({j \in DOMAIN data : before(j, i)}) + 1
    IN  [k \in DOMAIN data |-> data[CHOOSE i \in DOMAIN data : rank(i) = k]]

\* the keys of itertools.groupby over data sorted on col, in order
RECURSIVE GroupKeys(_, _)
GroupKeys(sorted, col) ==
    IF sorted = <<>> THEN <<>>
    ELSE LET k == GetOr(Head(sorted), col, Str("")).s
             rest == GroupKeys(Tail(sorted), col)
         IN  IF rest # <<>> /\ Head(rest) = k THEN rest ELSE <<k>> \o rest

GroupOf(data, col, k) ==
    LET same(row) == GetOr(row, col, Str("")).s = k
    IN  SelectSeq(data, same)

\* _group_by_date: the dates in order; the group of a date is GroupOf
GroupByDate(data) == GroupKeys(SortByText(data, "TRAN_DATE"), "TRAN_DATE")

\* _create_account_excel: one sheet named by the account
CreateAccountExcel(account_no, account_data) ==
    <<[title |-> account_no, header |-> REQUIRED_CSV_COLUMNS, rows |-> account_data]>>

\* _create_summary_excel: one sheet per account of the date
CreateSummaryExcel(date_data) ==
    LET sorted == SortByText(date_data, "ACCOUNT_NO")
        accounts == GroupKeys(sorted, "ACCOUNT_NO")
    IN  [a \in DOMAIN accounts |->
            [title |-> accounts[a], header |-> REQUIRED_CSV_COLUMNS,
             rows |-> GroupOf(sorted, "ACCOUNT_NO", accounts[a])]]

\* the excel_files of one date: a file per account, then the summary
DateFiles(date, date_data) ==
    LET sorted == SortByText(date_data, "ACCOUNT_NO")
        accounts == GroupKeys(sorted, "ACCOUNT_NO")
    IN  [a \in DOMAIN accounts |->
            [name |-> accounts[a] \o "_" \o date \o ".xlsx",
             content |-> CreateAccountExcel(accounts[a], GroupOf(sorted, "ACCOUNT_NO", accounts[a]))]]
        \o <<[name |-> "ALL Westpac Accounts Bank Statements " \o date \o ".xlsx",
              content |-> CreateSummaryExcel(date_data)]>>

\* step 6 over all dates
RECURSIVE ExcelFiles(_, _)
ExcelFiles(dates, data) ==
    IF dates = <<>> THEN <<>>
    ELSE DateFiles(Head(dates), GroupOf(SortByText(data, "TRAN_DATE"), "TRAN_DATE", Head(dates)))
         \o ExcelFiles(Tail(dates), data)

\* ------------------------------------------------- bank statement: requests
MaxBankRows == 2

StatementFile(headers, rows) ==
    [name |-> [stem |-> "statement", ext |-> ".csv"], encoding |-> "utf-8", size |-> 1,
     headers |-> headers, rows |-> rows]

\* the calls of process_uploaded_file: statements that vary the rows, the
\* headers, and the file itself
BankRequests ==
    LET StatementRow(date, account, amount) ==
            <<date, account, "Name", "AUD", "10", amount, "DEP", "", "">>
        OneRow == <<StatementRow("20250101", "032075843041", "10")>>
        StatementRows ==
            {StatementRow(d, a, "10") :
                d \in {"20250101", "20250102", ""},
                a \in {"032075843041", " 032075843041 ", "034003431178", "999"}}
            \cup {StatementRow("abc", "034003431178", "abc"), <<"20250101", "032075843041">>}
        StatementHeaders ==
            {REQUIRED_CSV_COLUMNS,
             [REQUIRED_CSV_COLUMNS EXCEPT ![1] = " TRAN_DATE"],
             [REQUIRED_CSV_COLUMNS EXCEPT ![1] = "ACCOUNT_NO", ![2] = "TRAN_DATE"],
             SubSeq(REQUIRED_CSV_COLUMNS, 1, 8)}
    IN  {StatementFile(REQUIRED_CSV_COLUMNS, rows) :
            rows \in SeqsUpTo(StatementRows, MaxBankRows)}
        \cup {StatementFile(h, OneRow) : h \in StatementHeaders}
        \cup {[StatementFile(<<>>, <<>>) EXCEPT !.size = 0],
              StatementFile(<<>>, <<>>),
              [StatementFile(REQUIRED_CSV_COLUMNS, OneRow) EXCEPT !.encoding = "latin-1"],
              [StatementFile(REQUIRED_CSV_COLUMNS, OneRow)
                  EXCEPT !.name = [stem |-> "a.b", ext |-> ""]]}

\* ------------------------------------------------- bank statement: process_uploaded_file
\* entry and step 1: an empty file is fatal
BankCall ==
    /\ pc = "idle"
    /\ \E r \in BankRequests :
        /\ req' = r
        /\ IF r.size = 0
           THEN /\ errors' = <<"CSV file is empty">>
                /\ response' = HandleErrors(<<"CSV file is empty">>, ResponseBase)
                /\ pc' = "done"
           ELSE /\ errors' = <<>>
                /\ response' = ResponseBase
                /\ pc' = "load"
    /\ svc' = "bank"
    /\ work' = [data |-> <<>>, filtered_data |-> <<>>]

\* step 2: the rows are loaded; bad headers and no rows are fatal
BankLoad ==
    /\ svc = "bank" /\ pc = "load"
    /\ LET loaded == BankLoadCsvData(req)
       IN  IF ~loaded.ok
           THEN /\ Fail(errors \o loaded.errs)
                /\ UNCHANGED work
           ELSE IF Len(loaded.data) = 0
           THEN /\ Fail(errors \o <<"No data rows found in CSV file">>)
                /\ UNCHANGED work
           ELSE /\ work' = [work EXCEPT !.data = loaded.data]
                /\ pc' = "filter"
                /\ UNCHANGED <<errors, response>>
    /\ UNCHANGED <<svc, req>>

\* steps 3 and 4: the required accounts are kept and the numbers converted
BankFilter ==
    /\ svc = "bank" /\ pc = "filter"
    /\ IF FilterByAccounts(work.data) = <<>>
       THEN /\ Fail(errors \o <<"No transactions found for required accounts">>)
            /\ UNCHANGED work
       ELSE /\ work' = [work EXCEPT !.filtered_data =
                          ConvertNumericColumns(FilterByAccounts(work.data))]
            /\ pc' = "export"
            /\ UNCHANGED <<errors, response>>
    /\ UNCHANGED <<svc, req>>

\* steps 5 to 7: the workbooks and the archive; a write that raises is caught
\* by the handler of the entry point
BankExport ==
    /\ svc = "bank" /\ pc = "export"
    /\ \E fails \in BOOLEAN :
        IF fails
        THEN Fail(errors \o <<"Error processing file">>)
        ELSE /\ response' = [response EXCEPT !.data =
                               [name |-> "[pygrays]" \o req.name.stem \o "-BankStatement.zip",
                                content |-> ExcelFiles(GroupByDate(work.filtered_data),
                                                       work.filtered_data)]]
             /\ pc' = "done"
             /\ UNCHANGED errors
    /\ UNCHANGED <<svc, req, work>>

BankNext ==
    \/ BankCall
    \/ BankLoad
    \/ BankFilter
    \/ BankExport

SpecBank == Init /\ [][BankNext]_vars

\* ------------------------------------------------- payment extract
REQUIRED_SHEET_NAME == "Payments Extract"

REQUIRED_COLUMN_NAME == "BusinessEntity"

BLANK_VALUE_REPLACEMENT == "Blank"

\* ExcelUtilities.is_xls_file: by extension or by the OLE2 signature; a file is
\* [name, size, format, sheets] with format the container its bytes hold
IsXlsFile(excel_file) == excel_file.name.ext \in {".xls", ".XLS"} \/ excel_file.format = "xls"

\* ExcelUtilities.load_excel_workbook: [ok, wb, errs]
LoadExcelWorkbook(excel_file) ==
    IF excel_file.size = 0
    THEN [ok |-> FALSE, wb |-> <<>>, errs |-> <<"Excel file is empty">>]
    ELSE IF IsXlsFile(excel_file)
    THEN (IF excel_file.format = "xls"
          THEN [ok |-> TRUE, wb |-> excel_file.sheets, errs |-> <<>>]
          ELSE [ok |-> FALSE, wb |-> <<>>, errs |-> <<"Error converting XLS file to XLSX format">>])
    ELSE IF excel_file.format = "xlsx"
    THEN [ok |-> TRUE, wb |-> excel_file.sheets, errs |-> <<>>]
    ELSE [ok |-> FALSE, wb |-> <<>>, errs |-> <<"Invalid Excel file format">>]

\* _validate_excel_file: the workbook must hold the required sheet
ValidateExcelFile(excel_file) ==
    LET loaded == LoadExcelWorkbook(excel_file)
    IN  IF ~loaded.ok THEN loaded
        ELSE IF \A i \in DOMAIN loaded.wb : loaded.wb[i].title # REQUIRED_SHEET_NAME
        THEN [ok |-> FALSE, wb |-> <<>>, errs |-> <<"Sheet 'Payments Extract' not found in the Excel file">>]
        ELSE loaded

\* str(value).strip() of a cell, "" for None
CellText(v) == IF v.k = "none" THEN "" ELSE IF v.k = "str" THEN Strip(v.s) ELSE FStr(v)

\* the header texts of row 1; an empty sheet has the single cell A1
SheetHeaders(sheet) ==
    IF sheet.table = <<>> THEN <<"">>
    ELSE [i \in DOMAIN sheet.table[1] |-> CellText(sheet.table[1][i])]

\* _validate_sheet_structure: the 1-based index of the required column, 0 for None
ValidateSheetStructure(sheet) ==
    LET headers == SheetHeaders(sheet)
    IN  IF REQUIRED_COLUMN_NAME \notin SeqToSet(headers) THEN 0
        ELSE CHOOSE i \in DOMAIN headers :
                /\ headers[i] = REQUIRED_COLUMN_NAME
                /\ \A j \in DOMAIN headers : headers[j] = REQUIRED_COLUMN_NAME => i <= j

\* _read_sheet_data: one dict per row after the first, None cells as ""
ReadSheetData(sheet) ==
    LET headers == SheetHeaders(sheet)
        body == IF sheet.table = <<>> THEN <<>> ELSE Tail(sheet.table)
        last(h) == CHOOSE i \in DOMAIN headers :
                      headers[i] = h /\ \A j \in DOMAIN headers : headers[j] = h => j <= i
    IN  [r \in DOMAIN body |->
            [h \in SeqToSet(headers) |->
                IF body[r][last(h)].k = "none" THEN Str("") ELSE body[r][last(h)]]]

\* the entity a row belongs to
EntityOf(row) ==
    IF CellText(GetOr(row, REQUIRED_COLUMN_NAME, Str(""))) = ""
    THEN BLANK_VALUE_REPLACEMENT
    ELSE CellText(GetOr(row, REQUIRED_COLUMN_NAME, Str("")))

\* _get_unique_business_entities: sorted unique entities, EntityTexts being
\* the entity texts in the order of str's <
GetUniqueBusinessEntities(data_rows) ==
    LET EntityTexts == <<"30", "ACME", "Beta", "Blank">>
        present(e) == \E r \in DOMAIN data_rows : EntityOf(data_rows[r]) = e
    IN  SelectSeq(EntityTexts, present)

\* _create_excel_file_for_entity: one sheet with the rows of the entity
CreateExcelFileForEntity(data_rows, business_entity_value, headers) ==
    LET mine(row) == EntityOf(row) = business_entity_value
    IN  <<[title |-> REQUIRED_SHEET_NAME, header |-> headers, rows |-> SelectSeq(data_rows, mine)]>>

\* ExcelUtilities.convert_xlsx_to_xls(excel_file, errors=None) called with
\* args: a call with more than two positional arguments raises TypeError
ConvertXlsxToXls(args) ==
    IF Len(args) > 2 THEN [raised |-> TRUE, content |-> <<>>]
    ELSE [raised |-> FALSE, content |-> args[1]]

\* step 7: the file of each entity, or a raise
RECURSIVE EntityFiles(_, _, _, _)
EntityFiles(entities, data_rows, headers, original_filename) ==
    IF entities = <<>> THEN [raised |-> FALSE, files |-> <<>>]
    ELSE LET xlsx_content == CreateExcelFileForEntity(data_rows, Head(entities), headers)
             stem == original_filename \o "-BusinessEntity-" \o Head(entities)
             xls_content == ConvertXlsxToXls(<<xlsx_content, stem \o ".xlsx", <<>>>>)
             rest == EntityFiles(Tail(entities), data_rows, headers, original_filename)
         IN  IF xls_content.raised \/ rest.raised THEN [raised |-> TRUE, files |-> <<>>]
             ELSE [raised |-> FALSE,
                   files |-> <<[name |-> stem \o ".xls", content |-> xls_content.content]>>
                             \o rest.files]

\* ------------------------------------------------- payment extract: requests
MaxPayRows == 2

PayFile(ext, format, sheets) ==
    [name |-> [stem |-> "payments", ext |-> ext], size |-> 1, format |-> format, sheets |-> sheets]

PaySheet(title, table) == [title |-> title, table |-> table]

\* the calls of process_uploaded_file: workbooks that vary the header row and
\* the rows of the required sheet, the file's extension and format, and its sheets
PaymentRequests ==
    LET PayHeaders ==
            {<<Str("Id"), Str("BusinessEntity")>>, <<Str("Id"), Str(" BusinessEntity ")>>,
             <<Str("Id"), Str("Entity")>>, <<Str("BusinessEntity"), Str("BusinessEntity")>>}
        PayRows ==
            {<<IntV(1), e>> :
                e \in {Str("ACME"), Str(" ACME "), Str("Beta"), Str(""), None, IntV(30)}}
    IN  {PayFile(".xlsx", "xlsx", <<PaySheet(REQUIRED_SHEET_NAME, <<h>> \o rows)>>) :
            h \in PayHeaders, rows \in SeqsUpTo(PayRows, MaxPayRows)}
        \cup {PayFile(ext, format, <<PaySheet("Other", <<>>),
                                     PaySheet(REQUIRED_SHEET_NAME,
                                              <<<<Str("Id"), Str("BusinessEntity")>>,
                                                <<IntV(1), Str("ACME")>>>>)>>) :
                ext \in {".xlsx", ".xls", ".XLS"}, format \in {"xlsx", "xls", "bad"}}
        \cup {[PayFile(".xlsx", "xlsx", <<>>) EXCEPT !.size = 0],
              PayFile(".xlsx", "xlsx", <<PaySheet("Other", <<>>)>>),
              PayFile(".xlsx", "xlsx", <<PaySheet(REQUIRED_SHEET_NAME, <<>>)>>)}

\* ------------------------------------------------- payment extract: process_uploaded_file
PaymentLocals == [sheet |-> PaySheet("", <<>>), data_rows |-> <<>>]

\* entry and steps 1 to 3: the workbook, its sheet and its column
PaymentCall ==
    /\ pc = "idle"
    /\ \E r \in PaymentRequests :
        LET loaded == ValidateExcelFile(r)
            sheet == loaded.wb[CHOOSE i \in DOMAIN loaded.wb :
                                    loaded.wb[i].title = REQUIRED_SHEET_NAME]
            missing == <<"Column 'BusinessEntity' not found in the 'Payments Extract' sheet">>
        IN  /\ req' = r
            /\ IF ~loaded.ok
               THEN /\ errors' = loaded.errs
                    /\ response' = HandleErrors(loaded.errs, ResponseBase)
                    /\ pc' = "done"
                    /\ work' = PaymentLocals
               ELSE IF ValidateSheetStructure(sheet) = 0
               THEN /\ errors' = missing
                    /\ response' = HandleErrors(missing, ResponseBase)
                    /\ pc' = "done"
                    /\ work' = PaymentLocals
               ELSE /\ errors' = <<>>
                    /\ response' = ResponseBase
                    /\ pc' = "read"
                    /\ work' = [PaymentLocals EXCEPT !.sheet = sheet]
    /\ svc' = "payment"

\* step 4: the data rows; none is fatal
PaymentRead ==
    /\ svc = "payment" /\ pc = "read"
    /\ IF ReadSheetData(work.sheet) = <<>>
       THEN /\ Fail(errors \o <<"No data rows found in sheet 'Payments Extract'">>)
            /\ UNCHANGED work
       ELSE /\ work' = [work EXCEPT !.data_rows = ReadSheetData(work.sheet)]
            /\ pc' = "split"
            /\ UNCHANGED <<errors, response>>
    /\ UNCHANGED <<svc, req>>

\* steps 5 to 8: a file per entity and the archive; a raise is caught by the
\* handler of the entry point
PaymentSplit ==
    /\ svc = "payment" /\ pc = "split"
    /\ LET out == EntityFiles(GetUniqueBusinessEntities(work.data_rows), work.data_rows,
                              SheetHeaders(work.sheet), req.name.stem)
       IN  IF out.raised
           THEN Fail(errors \o <<"Error processing file">>)
           ELSE /\ response' = [response EXCEPT !.data =
                                  [name |-> "[pygrays]" \o req.name.stem \o "-PaymentExtract.zip",
                                   content |-> out.files]]
                /\ pc' = "done"
                /\ UNCHANGED errors
    /\ UNCHANGED <<svc, req, work>>

PaymentNext ==
    \/ PaymentCall
    \/ PaymentRead
    \/ PaymentSplit

SpecPayment == Init /\ [][PaymentNext]_vars

\* ------------------------------------------------- schema: direct calls
\* ImportField.convert applied to any Python value: a string, or a value that
\* already has the field's type
ConvertValue(field, v) ==
    IF ~Truthy(v) THEN (IF field.required THEN v ELSE None)
    ELSE CASE field.field_type = "datetime" ->
                \* strptime of a non-string raises TypeError, which convert
                \* catches; without formats nothing is tried
                IF v.k = "str" THEN ParseDate(field, v.s)
                ELSE IF field.formats = <<>> THEN None ELSE v
           [] field.field_type = "float" ->
                IF v.k = "str" THEN Convert(field, v.s) ELSE Float(v.n)
           [] field.field_type = "integer" ->
                IF v.k # "str" THEN IntV(v.n)
                ELSE IF Strip(v.s) \in DOMAIN IntText THEN IntV(IntText[Strip(v.s)])
                ELSE v
           [] field.field_type = "boolean" ->
                IF v.k = "str" THEN Convert(field, v.s) ELSE Bool(TRUE)
           [] field.field_type = "decimal" ->
                IF CleanDecimal(v.s) \in DOMAIN DecimalText
                THEN Decimal(DecimalText[CleanDecimal(v.s)], CleanDecimal(v.s))
                ELSE v
           [] OTHER -> v

\* a call of ImportField.convert and its return value: every field type,
\* required or not, on CSV cells and on values that already have the field's
\* type
SchemaConvert ==
    LET Formats == aging_report_daily_data_import_schema["Sale_Date"].formats
        Cells == {Str(t) : t \in {"", "30", " 30 ", "100", "abc", "TRUE", "01/02/2025",
                                   "31/02/2025", "$1.0"}}
        Typed(type) ==
            CASE type = "string" -> {Str("Widget")}
              [] type = "integer" -> {IntV(0), IntV(30), IntV(-30)}
              [] type = "float" -> {Float(0), Float(100), Float(-100)}
              [] type = "boolean" -> {Bool(TRUE), Bool(FALSE)}
              [] type = "decimal" ->
                    {Decimal(0, "0"), Decimal(10, "1.0"), Decimal(-20, "-2"),
                     Decimal(1000, "1E+2")}
              [] type = "datetime" -> {DateTime(20120)}
    IN  /\ pc = "idle"
        /\ \E type \in {"string", "integer", "float", "boolean", "decimal", "datetime"},
              required \in BOOLEAN, fmts \in {<<>>, Formats} :
              \E v \in Cells \cup Typed(type) :
                 LET field == ImportField(type, required,
                                          IF type = "datetime" THEN fmts ELSE <<>>)
                 IN  /\ req' = [field |-> field, value |-> v]
                     /\ work' = [value |-> ConvertValue(field, v)]
        /\ svc' = "convert"
        /\ pc' = "done"
        /\ errors' = <<>>
        /\ response' = ResponseBase

\* a call of ImportSchema.import_data with the aging import schema: files of
\* either encoding whose header has all, some, or more than the schema's columns
SchemaImport ==
    LET schema == aging_report_daily_data_import_schema
        Columns == {DOMAIN schema, (DOMAIN schema) \ {"Classification", "Cheque_Date"},
                    (DOMAIN schema) \cup {"Notes"}}
        Cell(row, f) == IF f = "Notes" THEN "n/a" ELSE row[f]
        CellRows == {BaseRow, [BaseRow EXCEPT !.Sale_No = "", !.Sale_Date = "31/02/2025"],
                     [BaseRow EXCEPT !.Classification = "", !.Gross_Tot = "abc"]}
    IN  /\ pc = "idle"
        /\ \E encoding \in {"utf-8", "latin-1"}, columns \in Columns,
              rows \in SeqsUpTo(CellRows, MaxImportRows) :
              LET file == [encoding |-> encoding,
                           rows |-> [i \in DOMAIN rows |->
                                       [f \in columns |-> Cell(rows[i], f)]]]
                  out == ImportData(schema, [decodes |-> Decodes(file, "utf-8-sig"),
                                             rows |-> file.rows])
              IN  /\ req' = file
                  /\ work' = [data |-> out.data]
                  /\ errors' = out.errs
        /\ svc' = "import"
        /\ pc' = "done"
        /\ response' = ResponseBase

\* the sort of ExportSchema.export_data: sorted() by
\* row.get(sort_by, datetime.min); keys of unlike types make sorted() raise
\* TypeError, which leaves the data as it is (the keys used here are dates
\* and the empty string)
SortBy(headers, sort_by, data) ==
    IF sort_by = "" \/ sort_by \notin SeqToSet(headers) THEN data
    ELSE LET key(i) == GetOr(data[i], sort_by, DateTime(DateTimeMin))
             before(i, j) == key(i).n < key(j).n \/ (key(i).n = key(j).n /\ i < j)
             rank(i) == Cardinality({j \in DOMAIN data : before(j, i)}) + 1
         IN  IF \E i, j \in DOMAIN data : key(i).k # key(j).k THEN data
             ELSE [k \in DOMAIN data |-> data[CHOOSE i \in DOMAIN data : rank(i) = k]]

\* a call of ExportSchema.export_data on an empty workbook, with the aging
\* columns and with or without the Due Date sort key: records with a due
\* date, with an empty one, and without the key
SchemaExport ==
    LET Records ==
            {[f \in {"Sale_No", "Due Date"} |->
                 IF f = "Sale_No" THEN Str("10") ELSE DateTime(20150)],
             [f \in {"Sale_No", "Due Date"} |->
                 IF f = "Sale_No" THEN Str("30") ELSE DateTime(20124)],
             [f \in {"Sale_No", "Due Date"} |->
                 IF f = "Sale_No" THEN Str("45") ELSE Str("")],
             [f \in {"Sale_No"} |-> Str("100")]}
    IN  /\ pc = "idle"
        /\ \E sort_by \in {"", "Due Date"}, data \in SeqsUpTo(Records, MaxExportRows),
              fails \in BOOLEAN :
              LET out == ExportData(ExportHeaders, SortBy(ExportHeaders, sort_by, data),
                                    <<>>, "FULLY PAID", fails)
              IN  /\ req' = [sort_by |-> sort_by, data |-> data]
                  /\ work' = [ok |-> out.ok, wb |-> out.wb]
                  /\ errors' = out.errs
        /\ svc' = "export"
        /\ pc' = "done"
        /\ response' = ResponseBase

SpecSchema == Init /\ [][SchemaConvert \/ SchemaImport \/ SchemaExport]_vars

\* ------------------------------------------------- the entry points
\* ------------------------------------------------- calls in sequence
\* the call has returned: the caller has taken the artifact, the arguments and
\* the other locals are gone, and the instance the routes share is ready for
\* the next call; the errors list and the response's envelope are kept as
\* the objects an earlier call leaves behind
NextCall ==
    /\ pc = "done"
    /\ pc' = "idle"
    /\ req' = <<>>
    /\ work' = <<>>
    /\ response' = [response EXCEPT !.data = NoData]
    /\ UNCHANGED <<svc, errors>>

\* any sequence of calls of the four services on their shared instances
SpecCalls ==
    Init /\ [][AgingNext \/ InventoryNext \/ BankNext \/ PaymentNext \/ NextCall]_vars

Next ==
    \/ AgingNext
    \/ InventoryNext
    \/ BankNext
    \/ PaymentNext
    \/ SchemaConvert
    \/ SchemaImport
    \/ SchemaExport
    \/ NextCall

Spec == Init /\ [][Next]_vars

\* ------------------------------------------------------------------ claims
\* C1: at every return of any of the four entry points, a response with
\* is_success = false carries no data (data is null).
C1_FailedResponseHasNoData ==
    pc = "done" => (response.is_success = FALSE => response.data = NoData)

\* an aging call that failed after the archive had been started
C1_Witness ==
    /\ svc = "aging" /\ pc = "done"
    /\ response.is_success = FALSE
    /\ work.zip # <<>>
    /\ response.data = NoData

\* C2: an aging call in which every supplied data file is skipped for its
\* name collects an error per file and fails with no data.
C2_AllFilesSkippedIsFatal ==
    (/\ svc = "aging" /\ pc = "done"
     /\ req.data_files # <<>>
     /\ \A i \in DOMAIN req.data_files : ~StateMatch(req.data_files[i].name))
    => /\ Len(errors) >= Len(req.data_files)
       /\ response.is_success = FALSE
       /\ response.data = NoData

\* C3: no call of the aging or inventory generator (with a sound reference
\* file) fails with nothing but row-level problems of its data rows (wrong
\* number of columns, a cell that does not convert) to report.
C3_RowProblemsNeverAbort ==
    (/\ pc = "done" /\ svc \in {"aging", "inventory"}
     /\ svc = "inventory" => LoadUomMapping(req.csv_file).ok
     /\ response.is_success = FALSE)
    => \E i \in DOMAIN response.errors :
          response.errors[i] \notin {"mismatched number of columns", "invalid decimal value"}

\* C4: when the export of a sheet fails in an aging call, the call returns
\* is_success = false with no data and the export error; and every archive
\* that is returned holds the main workbook with its data sheet and the three
\* division workbooks with both of their sheets.
C4_ExportFailureAbortsBatch ==
    LET export_errors == {"Error exporting data to " \o t :
                             t \in {"---DATA---", "FULLY PAID", "NOT FULLY PAID"}}
        titles(wb) == [i \in DOMAIN wb |-> wb[i].title]
        zip == response.data.content
    IN  (svc = "aging" /\ pc = "done")
        => /\ (\E i \in DOMAIN errors : errors[i] \in export_errors)
              => /\ response.is_success = FALSE
                 /\ response.data = NoData
                 /\ \E i \in DOMAIN response.errors : response.errors[i] \in export_errors
           /\ response.data # NoData
              => /\ Len(zip) = 4
                 /\ \E i \in DOMAIN zip[1].content :
                       /\ zip[1].content[i].title \in {"---DATA---", "---DATA---1"}
                       /\ zip[1].content[i].rows # <<>>
                 /\ \A k \in 2..4 : titles(zip[k].content) = <<"FULLY PAID", "NOT FULLY PAID">>

\* the NOT FULLY PAID export of a later division workbook failed after the
\* main workbook and a division workbook were already in the archive
C4_Witness ==
    /\ svc = "aging" /\ pc = "done"
    /\ \E i \in DOMAIN errors : errors[i] = "Error exporting data to NOT FULLY PAID"
    /\ Len(work.zip) >= 2
    /\ response.is_success = FALSE
    /\ response.data = NoData

\* C5: an aging call whose mapping file gives one lookup key two different
\* values (columns 3/4, 0/1 or 6,7/9 of two data rows) returns
\* is_success = false.
C5_MappingConflictIsFatal ==
    LET rows == IF req.mapping_file.table = <<>> THEN <<>> ELSE Tail(req.mapping_file.table)
        clash(a, b, key, val) ==
            /\ \A c \in key \cup {val} : Len(a) >= c /\ Len(b) >= c /\ a[c] # "" /\ b[c] # ""
            /\ \A c \in key : a[c] = b[c]
            /\ a[val] # b[val]
        conflict == \E i, j \in DOMAIN rows :
                       \/ clash(rows[i], rows[j], {4}, 5)
                       \/ clash(rows[i], rows[j], {1}, 2)
                       \/ clash(rows[i], rows[j], {7, 8}, 10)
    IN  (svc = "aging" /\ pc = "done" /\ conflict) => response.is_success = FALSE

\* C6: when Items of the UOM file occur with differing UOM values the load
\* returns no map and the errors name every conflicting Item with its values,
\* the first-seen one included; when no Item conflicts the map has exactly one
\* entry per distinct Item.
C6_UomConflictsAllReported ==
    LET table == req.csv_file.table
        rows == IF table = <<>> THEN <<>> ELSE Tail(table)
        sound(r) == Len(r) = 2 /\ LoadCell("Decimal", r[2]).ok
        value(r) == LoadCell("Decimal", r[2]).value
        at(item) == {i \in DOMAIN rows : sound(rows[i]) /\ rows[i][1] = item}
        items == {rows[i][1] : i \in {j \in DOMAIN rows : sound(rows[j])}}
        first(item) == value(rows[CHOOSE i \in at(item) : \A j \in at(item) : i <= j])
        conflicting == {item \in items :
                           \E i \in at(item) : ~PyEq(value(rows[i]), first(item))}
        others(item) == SeqsUpTo({value(rows[i]) : i \in at(item)}, Len(rows)) \ {<<>>}
        loaded == LoadUomMapping(req.csv_file)
    IN  (/\ svc = "inventory" /\ pc # "idle"
         /\ req.csv_file.encoding = "utf-8"
         /\ table # <<>> /\ Head(table) = UomHeaders)
        => IF conflicting # {}
           THEN /\ ~loaded.ok
                /\ \A item \in conflicting :
                      \E e \in DOMAIN loaded.errs : \E vs \in others(item) :
                         loaded.errs[e] = ConflictError(Str(item), <<first(item)>> \o vs)
           ELSE /\ loaded.ok
                /\ DOMAIN loaded.map = {Str(item) : item \in items}

\* C7: after the file loop of an aging call the kept rows are exactly the
\* coerced rows of the readable files for which none holds: Cheque_Date is
\* non-null, Gross_Tot equals zero, Description contains 'Buyer Cancellation
\* Fees', Description contains a totals marker; the loop records no error
\* besides one per unreadable file; and no data row of any output sheet has
\* a Cheque_Date.
C7_ExclusionFilter ==
    LET files == req.data_files
        readable(f) == StateMatch(f.name) /\ f.encoding # "latin-1"
        has(v, phrase) == v.k = "str" /\ v.s # "" /\ phrase \in Occurs[v.s]
        kept(row) ==
            /\ Get(row, "Cheque_Date") = None
            /\ ~(Get(row, "Gross_Tot").k = "float" /\ Get(row, "Gross_Tot").n = 0)
            /\ ~has(Get(row, "Description"), "Buyer Cancellation Fees")
            /\ \A m \in {"Total Invoices", "Total Payments", "Total Bankings"} :
                  ~has(Get(row, "Description"), m)
        coerced(f) == [i \in DOMAIN f.rows |->
                          ImportRow(aging_report_daily_data_import_schema, f.rows[i])]
        cat[n \in 0..Len(files)] ==
            IF n = 0 THEN <<>>
            ELSE cat[n - 1] \o (IF readable(files[n]) THEN SelectSeq(coerced(files[n]), kept)
                                ELSE <<>>)
        original(row) == [f \in (DOMAIN row) \ {"State"} |-> row[f]]
        cheque == CHOOSE c \in DOMAIN ExportHeaders : ExportHeaders[c] = "Cheque_Date"
        zip == response.data.content
    IN  (svc = "aging" /\ pc \notin {"idle", "files"} /\ files # <<>>)
        => /\ [i \in DOMAIN work.filtered |-> original(work.filtered[i])] = cat[Len(files)]
           /\ pc = "mapping"
              => Len(errors) = Cardinality({i \in DOMAIN files : ~readable(files[i])})
           /\ \A k \in DOMAIN zip : \A sh \in DOMAIN zip[k].content :
                 zip[k].content[sh].title # "Tables"
                 => \A r \in 2..Len(zip[k].content[sh].rows) :
                       zip[k].content[sh].rows[r][cheque] = None

\* a row with a cheque date and otherwise unobjectionable fields was dropped
\* and the report was returned without it
C7_Witness ==
    /\ svc = "aging" /\ pc = "done"
    /\ response.data # NoData
    /\ Len(req.data_files) = 1
    /\ Len(req.data_files[1].rows) = 1
    /\ req.data_files[1].rows[1].Cheque_Date = "01/02/2025"
    /\ req.data_files[1].rows[1].Gross_Tot = "100"
    /\ req.data_files[1].rows[1].Description = "Widget"
    /\ work.filtered = <<>>
    /\ errors = <<>>

\* C8: for a kept, derived aging row with Delot_Ind true, a numeric Gross_Tot
\* g and a numeric Sale_No s, Gross Amount is g - s; with the flag false and g
\* numeric it is g; with g absent it is 0.
C8_GrossAmountNetOfSaleNo ==
    (svc = "aging" /\ pc = "export")
    => \A i \in DOMAIN work.rows :
          LET src == work.filtered[i]
              g == Get(src, "Gross_Tot")
              s == Get(src, "Sale_No")
              flag == Get(src, "Delot_Ind") = Bool(TRUE)
          IN  Truthy(Get(src, "Classification"))
              => /\ (flag /\ g.k = "float" /\ s.k = "str" /\ s.s \in DOMAIN FloatText)
                    => work.rows[i]["Gross Amount"] = Float(g.n - FloatText[s.s])
                 /\ (~flag /\ g.k = "float") => work.rows[i]["Gross Amount"] = Float(g.n)
                 /\ g = None => work.rows[i]["Gross Amount"] = Float(0)

\* C9: for every derived aging row, Due Date is Sale_Date plus Payment Days
\* when Sale_Date is a date and Payment Days an integer and is empty
\* otherwise; when the State-Division key is empty or matches no entry,
\* Payment Days is empty (not 0) and so is Due Date.
C9_DueDate ==
    (svc = "aging" /\ pc = "export")
    => \A i \in DOMAIN work.rows :
          LET src == work.filtered[i]
              row == work.rows[i]
              sale == Get(src, "Sale_Date")
              days == row["Payment Days"]
              key == row["State-Division Name"]
              table == work.lookups.division_state_days
              hit == \E e \in DOMAIN table :
                        FStr(Get(table[e], "State")) \o "-" \o FStr(Get(table[e], "Division Name"))
                        = key.s
          IN  Truthy(Get(src, "Classification"))
              => /\ (sale.k = "datetime" /\ days.k = "int")
                    => row["Due Date"] = DateTime(sale.n + days.n)
                 /\ ~(sale.k = "datetime" /\ days.k = "int") => row["Due Date"] = Str("")
                 /\ (key = Str("") \/ ~hit) => (days = Str("") /\ row["Due Date"] = Str(""))

\* a row sold on 01/02/2025 on 30 days terms is due 30 days later, and the
\* same call is reachable with a lookup miss
C9_Witness ==
    /\ svc = "aging" /\ pc = "export"
    /\ \E i \in DOMAIN work.rows :
          /\ Get(work.filtered[i], "Sale_Date") = DateTime(20120)
          /\ Get(work.rows[i], "Payment Days") = IntV(30)
          /\ Get(work.rows[i], "Due Date") = DateTime(20150)

\* C10: for every derived aging row, with d the day of month of the reporting
\* date: To be Collected is the numeric Day<d> value, else 0; Collected is
\* Gross Amount minus To be Collected; Payable to Vendor is Gross Amount when
\* Delot_Ind is true and To be Collected is 0, else 0.  With d = 15,
\* Day15 = 250, gross 250 and the flag false: 250, 250, 0, 0.
C10_Amounts ==
    (svc = "aging" /\ pc = "export")
    => \A i \in DOMAIN work.rows :
          LET src == work.filtered[i]
              row == work.rows[i]
              day == Get(src, IF req.today.dom = 15 THEN "Day15" ELSE "Day14")
              tbc == IF day.k = "float" THEN day.n ELSE 0
              gross == row["Gross Amount"].n
              flag == Get(src, "Delot_Ind") = Bool(TRUE)
          IN  Truthy(Get(src, "Classification"))
              => /\ row["To be Collected"] = Float(tbc)
                 /\ row["Collected"] = Float(gross - tbc)
                 /\ row["Payable to Vendor"] = Float(IF flag /\ tbc = 0 THEN gross ELSE 0)
                 /\ (/\ req.today.dom = 15 /\ day = Float(250)
                     /\ Get(src, "Gross_Tot") = Float(250) /\ ~flag)
                    => /\ row["Gross Amount"] = Float(250)
                       /\ row["To be Collected"] = Float(250)
                       /\ row["Collected"] = Float(0)
                       /\ row["Payable to Vendor"] = Float(0)

\* the scenario row on the 15th: Day15 = 250, gross 250, flag false
C10_Witness ==
    /\ svc = "aging" /\ pc = "export"
    /\ req.today.dom = 15
    /\ \E i \in DOMAIN work.rows :
          /\ Get(work.filtered[i], "Day15") = Float(250)
          /\ Get(work.filtered[i], "Gross_Tot") = Float(250)
          /\ Get(work.filtered[i], "Delot_Ind") = Bool(FALSE)
          /\ Get(work.rows[i], "Gross Amount") = Float(250)
          /\ Get(work.rows[i], "To be Collected") = Float(250)
          /\ Get(work.rows[i], "Collected") = Float(0)
          /\ Get(work.rows[i], "Payable to Vendor") = Float(0)

\* C11: for every derived aging row, Month and Year are taken from Sale_Date
\* only when Description is non-empty and Sale_Date is a true date (a sale on
\* 01/02/2025 gives Feb-25 and 2025); a row with an empty Description has
\* both empty even when its Sale_Date is a valid date.
C11_MonthYear ==
    (svc = "aging" /\ pc = "export")
    => \A i \in DOMAIN work.rows :
          LET src == work.filtered[i]
              row == work.rows[i]
              sale == Get(src, "Sale_Date")
              described == Get(src, "Description") \notin {None, Str("")}
          IN  Truthy(Get(src, "Classification"))
              => /\ (described /\ sale = DateTime(20120))
                    => (row["Month"] = Str("Feb-25") /\ row["Year"] = IntV(2025))
                 /\ (described /\ sale.k = "datetime")
                    => (row["Month"].s # "" /\ row["Year"].k = "int")
                 /\ ~(described /\ sale.k = "datetime")
                    => (row["Month"] = Str("") /\ row["Year"] = Str(""))

\* a derived row without Description sold on a valid date has Month and Year
\* empty
C11_Witness ==
    /\ svc = "aging" /\ pc = "export"
    /\ \E i \in DOMAIN work.rows :
          /\ Truthy(Get(work.filtered[i], "Classification"))
          /\ Get(work.filtered[i], "Description") = None
          /\ Get(work.filtered[i], "Sale_Date") = DateTime(20124)
          /\ Get(work.rows[i], "Month") = Str("")
          /\ Get(work.rows[i], "Year") = Str("")

\* C12: a kept aging row whose Classification is absent or empty skips all
\* derivation: it reaches the output rows with exactly its original fields
\* and the State key, none of the derived fields, and the derivation adds no
\* error (the errors are those of the skipped files and of the mapping load).
C12_UnclassifiedPassThrough ==
    (svc = "aging" /\ pc = "export")
    => /\ \A i \in DOMAIN work.rows :
             Get(work.filtered[i], "Classification") \in {None, Str("")}
             => /\ work.rows[i] = work.filtered[i]
                /\ DOMAIN work.rows[i]
                   = (DOMAIN aging_report_daily_data_import_schema) \cup {"State"}
                /\ (DOMAIN work.rows[i]) \cap DerivedFields = {}
       /\ Len(errors)
          = Cardinality({f \in DOMAIN req.data_files :
                            ProcessDataFile(req.data_files[f]).errs # <<>>})
            + Len(LoadMapping(req.mapping_file).errs)

\* an unclassified row next to the derivation's output, with no error
C12_Witness ==
    /\ svc = "aging" /\ pc = "export"
    /\ errors = <<>>
    /\ \E i \in DOMAIN work.rows :
          /\ Get(work.filtered[i], "Classification") = None
          /\ Get(work.filtered[i], "Sale_Date") = DateTime(20124)
          /\ work.rows[i] = work.filtered[i]
          /\ "Month" \notin DOMAIN work.rows[i]

\* C13: the lookup tables built from the aging mapping file depend only on the
\* cells at column indices (0,1), (3,4) and (6,7,9) of its data rows: the
\* Division Name, Sub Division Name and Payment Days derived under the
\* request's mapping file are those derived under the file with the same data
\* rows and the usual header texts.
C13_LookupsByColumnIndex ==
    (/\ svc = "aging" /\ pc = "export"
     /\ Len(req.mapping_file.table[1]) = Len(StdMapping.table[1]))
    => LET retitled == [req.mapping_file EXCEPT !.table[1] = StdMapping.table[1]]
           loaded == LoadMapping(retitled)
       IN  \A i \in DOMAIN work.rows :
              LET other == DeriveRow(work.filtered[i], loaded, req.today)
              IN  \A f \in {"Division Name", "Sub Division Name", "Payment Days"} :
                     Get(work.rows[i], f) = Get(other, f)

\* C14: date coercion of a non-empty cell returns the parse of the first
\* configured format that succeeds and, when every format fails, retains the
\* original string: a non-empty date cell of a kept row is never null in the
\* record.
C14_UnparsedDateRetained ==
    (/\ svc = "aging" /\ pc \notin {"idle", "files"}
     /\ Len(req.data_files) = 1 /\ Len(work.filtered) = 1)
    => LET raw == req.data_files[1].rows[1]
           row == work.filtered[1]
       IN  \A f \in {"Sale_Date", "Cheque_Date"} :
              LET parsed == ParseDateFrom(raw[f],
                                aging_report_daily_data_import_schema[f].formats, 1)
              IN  raw[f] # ""
                  => /\ row[f] # None
                     /\ row[f] = IF parsed # None THEN parsed ELSE Str(raw[f])

\* C15: coercion is idempotent: for every field type and every value that
\* already has that type, zero, false and negative or exponent-form decimals
\* included, ImportField.convert returns the value unchanged.
C15_ConvertIdempotent ==
    (svc = "convert" /\ pc = "done")
    => LET kind == CASE req.field.field_type = "string" -> "str"
                     [] req.field.field_type = "integer" -> "int"
                     [] req.field.field_type = "boolean" -> "bool"
                     [] OTHER -> req.field.field_type
       IN  req.value.k = kind
           => (work.value.k = kind /\ work.value.n = req.value.n /\ work.value.s = req.value.s)

\* C16: every record returned by ImportSchema.import_data has an entry for
\* every field declared in the schema, also when the file's header row lacks
\* some of the schema's columns.
C16_AllSchemaFieldsPresent ==
    (svc = "import" /\ pc = "done")
    => \A i \in DOMAIN work.data :
          DOMAIN aging_report_daily_data_import_schema \subseteq DOMAIN work.data[i]

\* C17: CSV ingestion falls back to a single-byte encoding: bytes that are
\* invalid UTF-8 but valid latin-1 are ingested, by import_data and by the
\* inventory loader, and are no error in the aging data file loop.
C17_SingleByteFallback ==
    /\ (svc = "import" /\ pc = "done" /\ req.encoding = "latin-1" /\ req.rows # <<>>)
       => (errors = <<>> /\ Len(work.data) = Len(req.rows))
    /\ (svc = "inventory" /\ pc # "idle" /\ req.csv_file.encoding = "latin-1"
        /\ req.csv_file.table # <<>>)
       => LoadCsvFromBytes(req.csv_file).ok
    /\ (svc = "aging" /\ pc = "mapping")
       => \A f \in DOMAIN req.data_files :
             (StateMatch(req.data_files[f].name) /\ req.data_files[f].encoding = "latin-1")
             => ProcessDataFile(req.data_files[f]).errs = <<>>

C19_SortedWithMissingFirst ==
    (svc = "export" /\ pc = "done" /\ work.ok /\ req.sort_by = "Due Date")
    => LET rows == work.wb[Len(work.wb)].rows
           key(r) == IF rows[r][DueDateColumn] = Str("") THEN DateTimeMin
                     ELSE rows[r][DueDateColumn].n
       IN  \A r1, r2 \in 2..Len(rows) : r1 < r2 => key(r1) <= key(r2)

\* C20: the Due Date sort of the FULLY PAID sheet in an aging call never
\* raises: for every number of data rows of the sheet (none, one, many) and
\* every mix of dated and empty Due Date cells it completes, so that no call
\* ends as a failed response because of it.
C20_FullyPaidSortNeverRaises ==
    /\ (svc = "aging" /\ pc = "divisions")
       => LET filtered_data == SelectedRows(work.rows, ReportTypes[work.r])
              fp == ExportData(ExportHeaders, FullyPaid(filtered_data), <<>>, "FULLY PAID", FALSE)
          IN  SortFullyPaid(fp.wb[1].rows).ok
    /\ (svc = "aging" /\ pc = "done")
       => \A i \in DOMAIN response.errors :
             response.errors[i] # "Error processing file: 'Cell' object is not subscriptable"

\* C21: in every division workbook of an aging call the rows exported to
\* FULLY PAID (To be Collected equal to 0) and to NOT FULLY PAID (otherwise)
\* partition the rows selected for the workbook: every selected row is on
\* exactly one of the two lists, and a row is selected iff its Sub Division
\* Name is in the workbook's fixed set.
C21_SheetsPartitionSelection ==
    LET zero(row) == Get(row, "To be Collected").k \in {"float", "int"}
                     /\ Get(row, "To be Collected").n = 0
        count(list, row) == Cardinality({j \in DOMAIN list : list[j] = row})
        cells(item) == [c \in DOMAIN ExportHeaders |-> GetOr(item, ExportHeaders[c], Str(""))]
        name(i) == Get(work.rows[i], "Sub Division Name")
    IN  /\ (svc = "aging" /\ pc = "divisions")
           => \A r \in DOMAIN ReportTypes :
                 LET selected == {i \in DOMAIN work.rows :
                                    name(i).k = "str" /\ name(i).s \in FilterCriteria(ReportTypes[r])}
                     fully_paid == FullyPaid(SelectedRows(work.rows, ReportTypes[r]))
                     not_fully_paid == NotFullyPaid(SelectedRows(work.rows, ReportTypes[r]))
                 IN  /\ \A j \in DOMAIN fully_paid : zero(fully_paid[j])
                     /\ \A j \in DOMAIN not_fully_paid : ~zero(not_fully_paid[j])
                     /\ \A i \in DOMAIN work.rows :
                           count(fully_paid, work.rows[i]) + count(not_fully_paid, work.rows[i])
                           = Cardinality({j \in selected : work.rows[j] = work.rows[i]})
                     /\ Len(fully_paid) + Len(not_fully_paid) = Cardinality(selected)
        /\ (svc = "aging" /\ pc \in {"divisions", "package", "done"})
           => \A k \in 2..Len(work.zip) :
                 LET wb == work.zip[k].content
                     fully_paid == FullyPaid(SelectedRows(work.rows, ReportTypes[k - 1]))
                     not_fully_paid == NotFullyPaid(SelectedRows(work.rows, ReportTypes[k - 1]))
                 IN  /\ Len(wb[1].rows) = Len(fully_paid) + 1
                     /\ Tail(wb[2].rows)
                        = [j \in DOMAIN not_fully_paid |-> cells(not_fully_paid[j])]

\* the report type loop is entered with two rows, a fully paid WINE row and a
\* not fully paid AUTO row: both are selected for the Consumer workbook, one
\* for each sheet, and only the first for the Auto workbook
C21_Witness ==
    /\ svc = "aging" /\ pc = "divisions" /\ work.r = 1
    /\ Len(work.rows) = 2
    /\ Len(FullyPaid(SelectedRows(work.rows, "DivCONSUMER"))) = 1
    /\ Len(NotFullyPaid(SelectedRows(work.rows, "DivCONSUMER"))) = 1
    /\ Len(SelectedRows(work.rows, "DivAUTO")) = 1
    /\ \E i \in DOMAIN work.rows : Get(work.rows[i], "Sub Division Name") = Str("AUTO")

\* C22: a successful aging call returns an archive named
\* [pygrays]Sales_Aged_Balance_Reports_<YYYYMMDD>.zip for the reporting date,
\* every entry is named <DocumentType>_<YYYYMMDD>[-<variant>].xlsx with that
\* same stamp, and the entries are always the main workbook, then Auto,
\* Industrial and Consumer.
C22_ArchiveAndEntryNames ==
    LET DocumentTypes == {"Sales_Aged_Balance_Report", "All_Sales_Aged_Balance_Report",
                          "All Sales Aged Balance Report"}
        Variants == <<"", "-Auto", "-Industrial", "-Consumer">>
        zip == response.data.content
    IN  (svc = "aging" /\ pc = "done" /\ response.is_success)
        => /\ response.data.name
              = "[pygrays]Sales_Aged_Balance_Reports_" \o req.today.stamp \o ".zip"
           /\ Len(zip) = 4
           /\ \A k \in DOMAIN zip :
                 \E doc \in DocumentTypes :
                    zip[k].name = doc \o "_" \o req.today.stamp \o Variants[k] \o ".xlsx"

\* C23: for a workbook whose Payments Extract sheet has a BusinessEntity
\* header and at least one data row, the payment extract call succeeds with
\* an archive of exactly one file per distinct BusinessEntity (blank values
\* under Blank), each holding exactly the input rows of its entity, so that
\* every input row is in exactly one file.
C23_OneFilePerEntity ==
    (svc = "payment" /\ pc = "done" /\ work.data_rows # <<>>)
    => /\ response.is_success
       /\ LET files == response.data.content
               entities == {EntityOf(work.data_rows[r]) : r \in DOMAIN work.data_rows}
               rows_of(e) == LET mine(row) == EntityOf(row) = e
                             IN  SelectSeq(work.data_rows, mine)
           IN  /\ Len(files) = Cardinality(entities)
               /\ \A e \in entities :
                     \E i \in DOMAIN files :
                        /\ files[i].name = req.name.stem \o "-BusinessEntity-" \o e \o ".xls"
                        /\ files[i].content[1].rows = rows_of(e)
               /\ \A r \in DOMAIN work.data_rows :
                     Cardinality({i \in DOMAIN files :
                                    \E j \in DOMAIN files[i].content[1].rows :
                                       files[i].content[1].rows[j] = work.data_rows[r]}) = 1

\* C24: on every successful bank statement call each input transaction of a
\* required account is in exactly one per-account file, the one named
\* <account>_<date>.xlsx for its own account and TRAN_DATE, and in exactly
\* one per-date summary file; no transaction of another account is in any
\* output file; and the archive holds one file per distinct (date, account)
\* pair plus one summary per distinct date.
C24_TransactionsPlacedOnce ==
    LET files == response.data.content
        account(row) == GetOr(row, "ACCOUNT_NO", Str("")).s
        date(row) == GetOr(row, "TRAN_DATE", Str("")).s
        required(row) == \E a \in DOMAIN REQUIRED_ACCOUNTS : REQUIRED_ACCOUNTS[a] = account(row)
        kept == ConvertNumericColumns(SelectSeq(work.data, required))
        holds(file, row) == \E sh \in DOMAIN file.content :
                               \E j \in DOMAIN file.content[sh].rows : file.content[sh].rows[j] = row
        summary(d) == "ALL Westpac Accounts Bank Statements " \o d \o ".xlsx"
        summaries == {i \in DOMAIN files : \E r \in DOMAIN kept : files[i].name = summary(date(kept[r]))}
    IN  (svc = "bank" /\ pc = "done" /\ response.is_success)
        => /\ \A r \in DOMAIN kept :
                 /\ Cardinality({i \in DOMAIN files : files[i].name = summary(date(kept[r]))}) = 1
                 /\ Cardinality({i \in DOMAIN files :
                                   files[i].name = account(kept[r]) \o "_" \o date(kept[r]) \o ".xlsx"}) = 1
                 /\ \A i \in DOMAIN files :
                       holds(files[i], kept[r])
                       <=> files[i].name \in {summary(date(kept[r])),
                                              account(kept[r]) \o "_" \o date(kept[r]) \o ".xlsx"}
                 /\ \A i \in DOMAIN files \ summaries :
                       holds(files[i], kept[r])
                       => /\ Len(files[i].content) = 1
                          /\ \A j \in DOMAIN files[i].content[1].rows :
                                /\ account(files[i].content[1].rows[j]) = account(kept[r])
                                /\ date(files[i].content[1].rows[j]) = date(kept[r])
           /\ \A i \in DOMAIN files : \A sh \in DOMAIN files[i].content :
                 \A j \in DOMAIN files[i].content[sh].rows :
                    /\ required(files[i].content[sh].rows[j])
                    /\ \E r \in DOMAIN kept : kept[r] = files[i].content[sh].rows[j]
           /\ Len(files) = Cardinality({<<date(kept[r]), account(kept[r])>> : r \in DOMAIN kept})
                           + Cardinality({date(kept[r]) : r \in DOMAIN kept})

\* a statement with a transaction of a required account and one of another
\* account returned an archive of the account file and the summary
C24_Witness ==
    /\ svc = "bank" /\ pc = "done" /\ response.is_success
    /\ Len(work.data) = 2
    /\ \E r \in DOMAIN work.data : work.data[r]["ACCOUNT_NO"] = Str("999")
    /\ Len(response.data.content) = 2
    /\ response.data.content[1].name = "032075843041_20250101.xlsx"
    /\ Len(response.data.content[1].content[1].rows) = 1

\* C25: calls are stateless across invocations.  In any sequence of calls on
\* the same service instance every call starts from a fresh errors list, a
\* fresh response and fresh locals that depend on its own arguments only,
\* whatever the earlier calls left behind; within the call the errors list
\* only grows by the call's own errors and the response lists either nothing
\* or exactly those errors; and the envelope of a returned response is not
\* touched again.
\* So no response contains an error collected during an earlier call.
C25_CallsAreStateless ==
    [][LET IsPrefix(a, b) == Len(a) <= Len(b) /\ SubSeq(b, 1, Len(a)) = a
           FreshLocals ==
               CASE svc' = "aging" -> work' = AgingLocals
                 [] svc' = "inventory" ->
                       /\ work'.unit_with_cost = <<>> /\ work'.data_dicts = <<>>
                       /\ work'.deals_data = <<>>
                 [] svc' = "bank" -> work' = [data |-> <<>>, filtered_data |-> <<>>]
                 [] svc' = "payment" ->
                       /\ work'.data_rows = <<>>
                       /\ \/ work'.sheet = PaymentLocals.sheet
                          \/ \E i \in DOMAIN req'.sheets : work'.sheet = req'.sheets[i]
           Entry ==
               /\ Len(errors') <= 1
               /\ (errors' = <<>>) <=> (pc' # "done")
               /\ response' = HandleErrors(errors', ResponseBase)
               /\ FreshLocals
           Step ==
               /\ IsPrefix(errors, errors')
               /\ response'.errors \in {<<>>, errors'}
               /\ response'.errors # <<>> => pc' = "done"
               /\ UNCHANGED <<svc, req>>
       IN  /\ (pc = "idle" /\ pc' # "idle") => Entry
           /\ (pc \notin {"idle", "done"}) => Step
           /\ (pc = "done") => /\ response'.errors = response.errors
                               /\ response'.is_success = response.is_success
                               /\ UNCHANGED <<svc, errors>>]_vars

\* between two calls: an aging call has returned a failed response with its
\* errors, and the instance is idle again
C25_Witness ==
    /\ pc = "idle"
    /\ svc = "aging"
    /\ response.is_success = FALSE
    /\ Len(response.errors) >= 1
    /\ response.errors = errors

\* C26: the Due Date sort of the FULLY PAID sheet only reorders rows: after
\* it the data rows of the sheet are a permutation of the rows exported to
\* the sheet (none lost, duplicated or mixed), in non-decreasing Due Date
\* order with the empty Due Dates first.
C26_SortIsPermutation ==
    LET cells(item) == [c \in DOMAIN ExportHeaders |-> GetOr(item, ExportHeaders[c], Str(""))]
        count(list, row) == Cardinality({j \in DOMAIN list : list[j] = row})
        key(row) == IF row[DueDateColumn].k = "datetime" THEN row[DueDateColumn].n
                    ELSE DateTimeMin
    IN  (svc = "aging" /\ pc \in {"divisions", "package", "done"})
        => \A k \in 2..Len(work.zip) :
              LET fully_paid == FullyPaid(SelectedRows(work.rows, ReportTypes[k - 1]))
                  exported == [j \in DOMAIN fully_paid |-> cells(fully_paid[j])]
                  sheet == Tail(work.zip[k].content[1].rows)
              IN  /\ Len(sheet) = Len(exported)
                  /\ \A j \in DOMAIN exported : count(sheet, exported[j]) = count(exported, exported[j])
                  /\ \A i, j \in DOMAIN sheet : i < j => key(sheet[i]) <= key(sheet[j])

\* C27: at every return of the four service entry points the envelope fields
\* agree: is_success is true exactly when response.errors is empty and
\* exactly when data is non-null; so the errors collected during a call that
\* ends successfully are absent from the returned response.
C27_EnvelopeFieldsAgree ==
    (svc \in {"aging", "inventory", "bank", "payment"} /\ pc = "done")
    => /\ response.is_success <=> response.errors = <<>>
       /\ response.is_success <=> response.data # NoData
       /\ response.is_success \/ response.errors = errors

\* an aging call that skipped a data file for its name returned the archive
\* with an empty errors list
C27_Witness ==
    /\ svc = "aging" /\ pc = "done"
    /\ response.is_success
    /\ response.data # NoData
    /\ response.errors = <<>>
    /\ \E i \in DOMAIN errors : errors[i] = "Unable to extract state from filename"

\* C28: every row that reaches the aging derivation has a null Cheque_Date,
\* so in every produced report every derived row has Cheque Date Y/N equal
\* to NO and an empty Days Late for Vendors Pmt; no input produces YES or a
\* number of days.
C28_ChequeDateAlwaysNo ==
    LET yn == CHOOSE c \in DOMAIN ExportHeaders : ExportHeaders[c] = "Cheque Date Y/N"
        late == CHOOSE c \in DOMAIN ExportHeaders : ExportHeaders[c] = "Days Late for Vendors Pmt"
        sheets == {work.zip[k].content[sh] :
                     k \in DOMAIN work.zip, sh \in 1..2} \cup
                  {work.zip[k].content[3] : k \in DOMAIN work.zip \cap {1}}
    IN  (svc = "aging" /\ pc \notin {"idle", "files"})
        => /\ \A i \in DOMAIN work.filtered : Get(work.filtered[i], "Cheque_Date") = None
           /\ \A i \in DOMAIN work.rows :
                 "Cheque Date Y/N" \in DOMAIN work.rows[i]
                 => /\ work.rows[i]["Cheque Date Y/N"] = Str("NO")
                    /\ work.rows[i]["Days Late for Vendors Pmt"] = Str("")
           /\ \A sheet \in sheets : sheet.title # "Tables"
                 => \A r \in 2..Len(sheet.rows) :
                       /\ sheet.rows[r][yn] \in {Str("NO"), Str("")}
                       /\ sheet.rows[r][late] = Str("")

\* a row whose Cheque_Date cell holds a date that no format parses was kept,
\* derived with NO, and written to the main workbook
C28_Witness ==
    /\ svc = "aging" /\ pc = "divisions"
    /\ Len(work.zip) = 1
    /\ Len(req.data_files) = 1
    /\ Len(req.data_files[1].rows) = 1
    /\ req.data_files[1].rows[1].Cheque_Date = "31/02/2025"
    /\ Len(work.rows) = 1
    /\ "Cheque Date Y/N" \in DOMAIN work.rows[1]
    /\ work.rows[1]["Cheque Date Y/N"] = Str("NO")
    /\ work.rows[1]["Days Late for Vendors Pmt"] = Str("")

\* C29: after assembly the main aging workbook consists of exactly two
\* sheets, ---DATA--- and Tables, and the sheet named exactly ---DATA---
\* holds the header row and all processed rows: an export to a sheet name
\* the workbook already has writes into that sheet.
C29_DataSheetHoldsRows ==
    (svc = "aging" /\ pc \in {"divisions", "package", "done"} /\ Len(work.zip) >= 1)
    => LET wb == work.zip[1].content
           header == [c \in DOMAIN ExportHeaders |-> Str(ExportHeaders[c])]
           cells(item) == [c \in DOMAIN ExportHeaders |-> GetOr(item, ExportHeaders[c], Str(""))]
       IN  /\ {wb[i].title : i \in DOMAIN wb} = {"---DATA---", "Tables"}
           /\ Len(wb) = 2
           /\ \A i \in DOMAIN wb :
                 wb[i].title = "---DATA---"
                 => wb[i].rows = <<header>> \o [r \in DOMAIN work.rows |-> cells(work.rows[r])]

\* C30: an inventory call succeeds only if at least one DropshipSales and at
\* least one Deals file are supplied and all of them carry the same valid
\* month (1-12) and the same year in their names; a mismatch within one type
\* or between the types, in any order of the files, ends with is_success
\* false and no data; and on success the workbook
\* <MonthName>_All_Sales_<year>.xlsx is returned itself, not in an archive.
C30_SamePeriodRequired ==
    LET files == req.txt_files
        of(category) == {i \in DOMAIN files : /\ files[i].name.category = category
                                                /\ files[i].name.date > 0
                                                /\ files[i].name.ext = ".txt"}
        month(i) == (files[i].name.date \div 100) % 100
        year(i) == files[i].name.date \div 10000
        named == of("DropshipSales") \cup of("Deals")
        same_period == /\ of("DropshipSales") # {}
                       /\ of("Deals") # {}
                       /\ \A i, j \in named : month(i) = month(j) /\ year(i) = year(j)
                       /\ \A i \in named : month(i) \in 1..12
    IN  (svc = "inventory" /\ pc = "done")
        => /\ response.is_success => same_period
           /\ ~same_period => (~response.is_success /\ response.data = NoData)
           /\ response.is_success
              => \E i \in named :
                    /\ response.data.name
                       = MonthName(month(i)) \o "_All_Sales_" \o YearText(year(i)) \o ".xlsx"
                    /\ [sh \in DOMAIN response.data.content |-> response.data.content[sh].title]
                       = <<"Dropship Sales", "Mixed", "Wine">>

\* two DropshipSales files of different days of February 2025 and one Deals
\* file of that month gave the February workbook
C30_Witness ==
    /\ svc = "inventory" /\ pc = "done" /\ response.is_success
    /\ Len(req.txt_files) = 3
    /\ \E i, j \in DOMAIN req.txt_files :
          /\ req.txt_files[i].name = TxtName("DropshipSales", 20250201)
          /\ req.txt_files[j].name = TxtName("DropshipSales", 20250228)
    /\ response.data.name = "February_All_Sales_2025.xlsx"

====
